---- MODULE Spec2Model ----
(***************************************************************************)
(* The JSONC scanner, the visit/parse recursive-descent parser and the     *)
(* default tree builder of packages/one-version/utils/jsonc-parser.mjs     *)
(* (src/unnamed/part_002).                                                 *)
(*                                                                         *)
(* A text is a sequence of UTF-16 code units (what charCodeAt returns).     *)
(* A JavaScript string is a sequence of code units too.                    *)
(***************************************************************************)
EXTENDS Integers, Sequences, FiniteSets, TLC

\* ---------------------------------------------------------------- enums

SyntaxKind ==
  [OpenBraceToken |-> 1, CloseBraceToken |-> 2, OpenBracketToken |-> 3,
   CloseBracketToken |-> 4, CommaToken |-> 5, ColonToken |-> 6,
   NullKeyword |-> 7, TrueKeyword |-> 8, FalseKeyword |-> 9,
   StringLiteral |-> 10, NumericLiteral |-> 11, LineCommentTrivia |-> 12,
   BlockCommentTrivia |-> 13, LineBreakTrivia |-> 14, Trivia |-> 15,
   Unknown |-> 16, EOF |-> 17]

ScanError ==
  [None |-> 0, UnexpectedEndOfComment |-> 1, UnexpectedEndOfString |-> 2,
   UnexpectedEndOfNumber |-> 3, InvalidUnicode |-> 4,
   InvalidEscapeCharacter |-> 5, InvalidCharacter |-> 6]

\* The code units the scanner names (d0..d9 are _0.._9 of the source), and the
\* few others the documents below are written with.
CharacterCodes ==
  [lineFeed |-> 10, carriageReturn |-> 13, space |-> 32, tab |-> 9,
   formFeed |-> 12, backspace |-> 8,
   d0 |-> 48, d1 |-> 49, d2 |-> 50, d3 |-> 51, d4 |-> 52,
   d5 |-> 53, d6 |-> 54, d7 |-> 55, d8 |-> 56, d9 |-> 57,
   a |-> 97, b |-> 98, c |-> 99, d |-> 100, e |-> 101, f |-> 102, l |-> 108,
   n |-> 110, o |-> 111, p |-> 112, r |-> 114, s |-> 115, t |-> 116, u |-> 117,
   A |-> 65, E |-> 69, F |-> 70,
   asterisk |-> 42, backslash |-> 92, closeBrace |-> 125, closeBracket |-> 93,
   colon |-> 58, comma |-> 44, dot |-> 46, doubleQuote |-> 34, minus |-> 45,
   openBrace |-> 123, openBracket |-> 91, plus |-> 43, slash |-> 47,
   underscore |-> 95]

CC == CharacterCodes

\* What charCodeAt returns past the end of the text: NaN, which no comparison
\* of the scanner accepts.  -1 behaves the same in every test the scanner makes.
NaN == -1

\* ---------------------------------------------------------------- strings

\* text.charCodeAt(pos), pos counted from 0.
CharCodeAt(text, pos) ==
  IF pos >= 0 /\ pos < Len(text) THEN text[pos + 1] ELSE NaN

Min(a, b) == IF a <= b THEN a ELSE b

Max(a, b) == IF a >= b THEN a ELSE b

Clamp(text, i) == Max(0, Min(i, Len(text)))

\* text.substring(start, end): both ends clamped to [0, length], swapped when
\* start > end.
Substring(text, start, end) ==
  LET s == Clamp(text, start)
      e == Clamp(text, end)
  IN SubSeq(text, Min(s, e) + 1, Max(s, e))

\* String.fromCharCode(code) as a one-unit string.
FromCharCode(code) == <<code>>

isWhiteSpace(ch) == ch = CC.space \/ ch = CC.tab

isLineBreak(ch) == ch = CC.lineFeed \/ ch = CC.carriageReturn

isDigit(ch) == ch >= CC.d0 /\ ch <= CC.d9

isUnknownContentCharacter(code) ==
  IF isWhiteSpace(code) \/ isLineBreak(code) THEN FALSE
  ELSE code \notin {CC.closeBrace, CC.closeBracket, CC.openBrace, CC.openBracket,
                    CC.doubleQuote, CC.colon, CC.comma, CC.slash}

\* ---------------------------------------------------------------- scanner

\* The closure variables of createScanner right after it is created.
NewScanner ==
  [pos |-> 0, value |-> <<>>, tokenOffset |-> 0, token |-> SyntaxKind.Unknown,
   lineNumber |-> 0, lineStartOffset |-> 0, tokenLineStartOffset |-> 0,
   prevTokenLineStartOffset |-> 0, scanError |-> ScanError.None]

\* In every definition below a value that is used more than once is a parameter
\* of a helper operator rather than a LET definition: the helpers named
\* xxxAt/xxxFrom/xxxWith carry the source's local variables from one statement
\* to the next.

RECURSIVE scanHexDigitsLoop(_, _, _, _, _, _)
hexValue(ch) ==
  IF ch >= CC.d0 /\ ch <= CC.d9 THEN ch - CC.d0
  ELSE IF ch >= CC.A /\ ch <= CC.F THEN ch - CC.A + 10
  ELSE IF ch >= CC.a /\ ch <= CC.f THEN ch - CC.a + 10
  ELSE NaN

\* The while loop of scanHexDigits; the result is the new position and the
\* value (-1: fewer than count digits).
scanHexDigitsLoop(text, pos, count, exact, digits, value) ==
  IF (digits < count \/ ~exact) /\ hexValue(CharCodeAt(text, pos)) # NaN
  THEN scanHexDigitsLoop(text, pos + 1, count, exact, digits + 1,
                         value * 16 + hexValue(CharCodeAt(text, pos)))
  ELSE [pos |-> pos, value |-> IF digits < count THEN -1 ELSE value]

scanHexDigits(text, pos, count, exact) ==
  scanHexDigitsLoop(text, pos, count, exact, 0, 0)

RECURSIVE skipDigits(_, _)
\* while (pos < text.length && isDigit(text.charCodeAt(pos))) pos++
skipDigits(text, pos) ==
  IF pos < Len(text) /\ isDigit(CharCodeAt(text, pos))
  THEN skipDigits(text, pos + 1)
  ELSE pos

\* What scanNumber hands back: the new position, the scan error it has set
\* (None: it has set none) and the string it returns.
numberResult(text, start, end, pos, err) ==
  [pos |-> pos, scanError |-> err, str |-> Substring(text, start, end)]

\* scanNumber from the digits of the exponent on (pos after the sign).
numberExponentDigits(text, start, end, pos) ==
  IF pos < Len(text) /\ isDigit(CharCodeAt(text, pos))
  THEN numberResult(text, start, skipDigits(text, pos + 1),
                    skipDigits(text, pos + 1), ScanError.None)
  ELSE numberResult(text, start, end, pos, ScanError.UnexpectedEndOfNumber)

\* scanNumber from "let end = pos" on.
numberExponent(text, start, pos) ==
  IF pos < Len(text)
     /\ (CharCodeAt(text, pos) = CC.E \/ CharCodeAt(text, pos) = CC.e)
  THEN IF (pos + 1 < Len(text) /\ CharCodeAt(text, pos + 1) = CC.plus)
          \/ CharCodeAt(text, pos + 1) = CC.minus
       THEN numberExponentDigits(text, start, pos, pos + 2)
       ELSE numberExponentDigits(text, start, pos, pos + 1)
  ELSE numberResult(text, start, pos, pos, ScanError.None)

\* numberFraction returning, for a '.' without a digit, the text before the '.'.
numberFractionWithoutDot(text, start, pos) ==
  IF pos < Len(text) /\ CharCodeAt(text, pos) = CC.dot
  THEN IF pos + 1 < Len(text) /\ isDigit(CharCodeAt(text, pos + 1))
       THEN numberExponent(text, start, skipDigits(text, pos + 2))
       ELSE numberResult(text, start, pos, pos + 1, ScanError.UnexpectedEndOfNumber)
  ELSE numberExponent(text, start, pos)

\* scanNumber from the test for '.' on.
numberFraction(text, start, pos) ==
  IF pos < Len(text) /\ CharCodeAt(text, pos) = CC.dot
  THEN IF pos + 1 < Len(text) /\ isDigit(CharCodeAt(text, pos + 1))
       THEN numberExponent(text, start, skipDigits(text, pos + 2))
       ELSE numberResult(text, start, pos + 1, pos + 1, ScanError.UnexpectedEndOfNumber)
  ELSE numberExponent(text, start, pos)

\* scanNumber(), entered at pos.
scanNumber(text, pos) ==
  numberFraction(text, pos,
                 IF CharCodeAt(text, pos) = CC.d0 THEN pos + 1
                 ELSE skipDigits(text, pos + 1))

\* The character an escape \" \\ \/ \b \f \n \r \t stands for; <<>> for any
\* other ch2 (which scanString then treats as \u or as an invalid escape).
simpleEscape(ch2) ==
  IF ch2 = CC.doubleQuote THEN <<CC.doubleQuote>>
  ELSE IF ch2 = CC.backslash THEN <<CC.backslash>>
  ELSE IF ch2 = CC.slash THEN <<CC.slash>>
  ELSE IF ch2 = CC.b THEN <<CC.backspace>>
  ELSE IF ch2 = CC.f THEN <<CC.formFeed>>
  ELSE IF ch2 = CC.n THEN <<CC.lineFeed>>
  ELSE IF ch2 = CC.r THEN <<CC.carriageReturn>>
  ELSE IF ch2 = CC.t THEN <<CC.tab>>
  ELSE <<>>

RECURSIVE scanStringLoop(_, _, _, _, _)
RECURSIVE scanEscape(_, _, _, _)
RECURSIVE scanUnicodeEscape(_, _, _, _)

\* case CharacterCodes.u: h is what scanHexDigits(4, true) has returned.
scanUnicodeEscape(text, h, result, err) ==
  IF h.value >= 0
  THEN scanStringLoop(text, h.pos, h.pos, result \o FromCharCode(h.value), err)
  ELSE scanStringLoop(text, h.pos, h.pos, result, ScanError.InvalidUnicode)

\* The backslash branch of scanString, with pos after the backslash and result
\* holding the raw run before it.
scanEscape(text, pos, result, err) ==
  IF pos >= Len(text)
  THEN [pos |-> pos, result |-> result, scanError |-> ScanError.UnexpectedEndOfString]
  ELSE IF simpleEscape(CharCodeAt(text, pos)) # <<>>
  THEN scanStringLoop(text, pos + 1, pos + 1,
                      result \o simpleEscape(CharCodeAt(text, pos)), err)
  ELSE IF CharCodeAt(text, pos) = CC.u
  THEN scanUnicodeEscape(text, scanHexDigits(text, pos + 1, 4, TRUE), result, err)
  ELSE scanStringLoop(text, pos + 1, pos + 1, result, ScanError.InvalidEscapeCharacter)

\* The while (true) loop of scanString: pos, the start of the pending raw run,
\* the result so far and the scan error so far.
scanStringLoop(text, pos, start, result, err) ==
  IF pos >= Len(text)
  THEN [pos |-> pos, result |-> result \o Substring(text, start, pos),
        scanError |-> ScanError.UnexpectedEndOfString]
  ELSE IF CharCodeAt(text, pos) = CC.doubleQuote
  THEN [pos |-> pos + 1, result |-> result \o Substring(text, start, pos),
        scanError |-> err]
  ELSE IF CharCodeAt(text, pos) = CC.backslash
  THEN scanEscape(text, pos + 1, result \o Substring(text, start, pos), err)
  ELSE IF CharCodeAt(text, pos) >= 0 /\ CharCodeAt(text, pos) <= 31
  THEN IF isLineBreak(CharCodeAt(text, pos))
       THEN [pos |-> pos, result |-> result \o Substring(text, start, pos),
             scanError |-> ScanError.UnexpectedEndOfString]
       ELSE scanStringLoop(text, pos + 1, start, result, ScanError.InvalidCharacter)
  ELSE scanStringLoop(text, pos + 1, start, result, err)

\* scanString(), entered with pos after the opening quote.
scanString(text, pos) == scanStringLoop(text, pos, pos, <<>>, ScanError.None)

RECURSIVE skipWhiteSpace(_, _)
\* The do ... while (isWhiteSpace(code)) loop: the first position after pos that
\* holds no white space.
skipWhiteSpace(text, pos) ==
  IF isWhiteSpace(CharCodeAt(text, pos + 1))
  THEN skipWhiteSpace(text, pos + 1)
  ELSE pos + 1

RECURSIVE skipLineComment(_, _)
skipLineComment(text, pos) ==
  IF pos < Len(text) /\ ~isLineBreak(CharCodeAt(text, pos))
  THEN skipLineComment(text, pos + 1)
  ELSE pos

\* The position after a line break at pos: \r\n counts as one.
afterLineBreak(text, pos) ==
  IF CharCodeAt(text, pos) = CC.carriageReturn /\ CharCodeAt(text, pos + 1) = CC.lineFeed
  THEN pos + 2
  ELSE pos + 1

RECURSIVE blockCommentLoop(_, _, _, _)
\* The while (pos < safeLength) loop of the block comment, safeLength = len - 1.
blockCommentLoop(text, pos, lineNumber, tokenLineStartOffset) ==
  IF pos < Len(text) - 1
  THEN IF CharCodeAt(text, pos) = CC.asterisk /\ CharCodeAt(text, pos + 1) = CC.slash
       THEN [pos |-> pos + 2, commentClosed |-> TRUE, lineNumber |-> lineNumber,
             tokenLineStartOffset |-> tokenLineStartOffset]
       ELSE IF isLineBreak(CharCodeAt(text, pos))
       THEN blockCommentLoop(text, afterLineBreak(text, pos), lineNumber + 1,
                             afterLineBreak(text, pos))
       ELSE blockCommentLoop(text, pos + 1, lineNumber, tokenLineStartOffset)
  ELSE [pos |-> pos, commentClosed |-> FALSE, lineNumber |-> lineNumber,
        tokenLineStartOffset |-> tokenLineStartOffset]

RECURSIVE skipUnknown(_, _)
\* while (pos < len && isUnknownContentCharacter(code)) { pos++; code = ... }
skipUnknown(text, pos) ==
  IF pos < Len(text) /\ isUnknownContentCharacter(CharCodeAt(text, pos))
  THEN skipUnknown(text, pos + 1)
  ELSE pos

kwTrue == <<CC.t, CC.r, CC.u, CC.e>>

kwFalse == <<CC.f, CC.a, CC.l, CC.s, CC.e>>

kwNull == <<CC.n, CC.u, CC.l, CC.l>>

\* return token = kind, the scanner having moved to pos with the token value v.
tokenAt(s, kind, pos, v) == [s EXCEPT !.pos = pos, !.value = v, !.token = kind]

\* A single-character token, whose value stays "".
punctuation(s, kind) == tokenAt(s, kind, s.pos + 1, <<>>)

\* case CharacterCodes.doubleQuote: r is what scanString has returned.
stringToken(s, r) ==
  [tokenAt(s, SyntaxKind.StringLiteral, r.pos, r.result) EXCEPT !.scanError = r.scanError]

\* The number cases: value += scanNumber(), r being what scanNumber has returned.
numberToken(s, prefix, r) ==
  [tokenAt(s, SyntaxKind.NumericLiteral, r.pos, prefix \o r.str)
     EXCEPT !.scanError = IF r.scanError = ScanError.None THEN s.scanError
                          ELSE r.scanError]

\* The block comment once its loop has ended with r.
blockCommentToken(text, s, start, r) ==
  [tokenAt(s, SyntaxKind.BlockCommentTrivia,
           IF r.commentClosed THEN r.pos ELSE r.pos + 1,
           Substring(text, start, IF r.commentClosed THEN r.pos ELSE r.pos + 1))
     EXCEPT !.lineNumber = r.lineNumber,
            !.tokenLineStartOffset = r.tokenLineStartOffset,
            !.scanError = IF r.commentClosed THEN s.scanError
                          ELSE ScanError.UnexpectedEndOfComment]

\* The default case: a word that ends at p.
wordToken(text, s, p) ==
  IF s.tokenOffset # p
  THEN tokenAt(s,
               IF Substring(text, s.tokenOffset, p) = kwTrue THEN SyntaxKind.TrueKeyword
               ELSE IF Substring(text, s.tokenOffset, p) = kwFalse THEN SyntaxKind.FalseKeyword
               ELSE IF Substring(text, s.tokenOffset, p) = kwNull THEN SyntaxKind.NullKeyword
               ELSE SyntaxKind.Unknown,
               p, Substring(text, s.tokenOffset, p))
  ELSE tokenAt(s, SyntaxKind.Unknown, s.pos + 1, FromCharCode(CharCodeAt(text, s.pos)))

\* The line break token that ends at p.
lineBreakToken(text, s, p) ==
  [tokenAt(s, SyntaxKind.LineBreakTrivia, p, Substring(text, s.pos, p))
     EXCEPT !.lineNumber = s.lineNumber + 1, !.tokenLineStartOffset = p]

\* case CharacterCodes.slash, with start = pos - 1.
slashToken(text, s, pos) ==
  IF CharCodeAt(text, pos + 1) = CC.slash
  THEN tokenAt(s, SyntaxKind.LineCommentTrivia, skipLineComment(text, pos + 2),
               Substring(text, pos - 1, skipLineComment(text, pos + 2)))
  ELSE IF CharCodeAt(text, pos + 1) = CC.asterisk
  THEN blockCommentToken(text, s, pos - 1,
                         blockCommentLoop(text, pos + 2, s.lineNumber,
                                          s.tokenLineStartOffset))
  ELSE tokenAt(s, SyntaxKind.Unknown, pos + 1, FromCharCode(CC.slash))

\* scanNext from "let code = text.charCodeAt(pos)" on, s being the scanner after
\* the assignments that open scanNext.
scanToken(text, s, pos, code) ==
  IF isWhiteSpace(code)
  THEN tokenAt(s, SyntaxKind.Trivia, skipWhiteSpace(text, pos),
               Substring(text, pos, skipWhiteSpace(text, pos)))
  ELSE IF isLineBreak(code) THEN lineBreakToken(text, s, afterLineBreak(text, pos))
  ELSE IF code = CC.openBrace THEN punctuation(s, SyntaxKind.OpenBraceToken)
  ELSE IF code = CC.closeBrace THEN punctuation(s, SyntaxKind.CloseBraceToken)
  ELSE IF code = CC.openBracket THEN punctuation(s, SyntaxKind.OpenBracketToken)
  ELSE IF code = CC.closeBracket THEN punctuation(s, SyntaxKind.CloseBracketToken)
  ELSE IF code = CC.colon THEN punctuation(s, SyntaxKind.ColonToken)
  ELSE IF code = CC.comma THEN punctuation(s, SyntaxKind.CommaToken)
  ELSE IF code = CC.doubleQuote THEN stringToken(s, scanString(text, pos + 1))
  ELSE IF code = CC.slash THEN slashToken(text, s, pos)
  ELSE IF code = CC.minus /\ (pos + 1 = Len(text) \/ ~isDigit(CharCodeAt(text, pos + 1)))
  THEN tokenAt(s, SyntaxKind.Unknown, pos + 1, FromCharCode(code))
  ELSE IF code = CC.minus
  THEN numberToken(s, FromCharCode(code), scanNumber(text, pos + 1))
  ELSE IF isDigit(code) THEN numberToken(s, <<>>, scanNumber(text, pos))
  ELSE wordToken(text, s, skipUnknown(text, pos))

\* The assignments that open scanNext, and the test for the end of the text.
scanFrom(text, s) ==
  IF s.pos >= Len(text)
  THEN [s EXCEPT !.tokenOffset = Len(text), !.token = SyntaxKind.EOF]
  ELSE scanToken(text, s, s.pos, CharCodeAt(text, s.pos))

\* createScanner's scanNext(): the scanner after one more token is scanned.
scanNext(text, s) ==
  scanFrom(text, [s EXCEPT !.value = <<>>, !.scanError = ScanError.None,
                           !.tokenOffset = s.pos,
                           !.lineStartOffset = s.lineNumber,
                           !.prevTokenLineStartOffset = s.tokenLineStartOffset])

\* setPosition(newPosition): the line counters lineNumber, lineStartOffset,
\* tokenLineStartOffset and prevTokenLineStartOffset keep their values.
setPosition(s, newPosition) ==
  [s EXCEPT !.pos = newPosition, !.value = <<>>, !.tokenOffset = 0,
            !.token = SyntaxKind.Unknown, !.scanError = ScanError.None]

\* isTrivia with the first comparison strict.
isTriviaStrict(result) ==
  result > SyntaxKind.LineCommentTrivia /\ result <= SyntaxKind.Trivia

\* The test that ends the do-while loop of scanNextNonTrivia.
isTrivia(result) ==
  result >= SyntaxKind.LineCommentTrivia /\ result <= SyntaxKind.Trivia

RECURSIVE nonTriviaFrom(_, _)
\* The do-while loop of scanNextNonTrivia, s being the scanner after scanNext().
nonTriviaFrom(text, s) ==
  IF isTrivia(s.token) THEN nonTriviaFrom(text, scanNext(text, s)) ELSE s

scanNextNonTrivia(text, s) == nonTriviaFrom(text, scanNext(text, s))

\* scan of the handle createScanner(text, ignoreTrivia) returns.
scanWith(text, s, ignoreTrivia) ==
  IF ignoreTrivia THEN scanNextNonTrivia(text, s) ELSE scanNext(text, s)

\* What the getters of the handle return for the current token.
TokenOf(s) ==
  [kind |-> s.token, value |-> s.value, offset |-> s.tokenOffset,
   length |-> s.pos - s.tokenOffset, startLine |-> s.lineStartOffset,
   startCharacter |-> s.tokenOffset - s.prevTokenLineStartOffset,
   error |-> s.scanError]

\* ---------------------------------------------------------------- values

\* JavaScript values as tagged records: undefined, null, booleans, numbers
\* (m * 10^e with m not divisible by 10, the decimal the Number stands for),
\* strings, and references to the objects and arrays of the heap.
Undefined == [t |-> "undefined"]

Null == [t |-> "null"]

Bool(b) == [t |-> "bool", b |-> b]

Str(s) == [t |-> "str", s |-> s]

Ref(r) == [t |-> "ref", r |-> r]

RECURSIVE normalize(_, _)
normalize(m, e) ==
  IF m = 0 THEN [t |-> "num", m |-> 0, e |-> 0]
  ELSE IF m % 10 = 0 THEN normalize(m \div 10, e + 1)
  ELSE [t |-> "num", m |-> m, e |-> e]

Num(m, e) == normalize(m, e)

NotANumber == [t |-> "num", nan |-> TRUE]

RECURSIVE digitsValue(_, _)
\* The integer a run of decimal digits stands for, most significant first.
digitsValue(s, acc) ==
  IF s = <<>> THEN acc ELSE digitsValue(Tail(s), acc * 10 + (Head(s) - CC.d0))

allDigits(s) == \A i \in 1..Len(s) : isDigit(s[i])

\* The first index of s that holds one of the code units cs, Len(s) + 1 if none.
firstOf(s, cs) ==
  IF \E i \in 1..Len(s) : s[i] \in cs
  THEN CHOOSE i \in 1..Len(s) : s[i] \in cs /\ \A j \in 1..(i - 1) : s[j] \notin cs
  ELSE Len(s) + 1

\* Number(tokenValue) for the decimal literals a numeric token can hold:
\* [-] digits [. digits] [(e|E) [+|-] digits]; any other string is NaN.
numberOfFields(neg, intPart, fracPart, hasExp, expNeg, expDigits) ==
  IF /\ allDigits(intPart) /\ allDigits(fracPart)
     /\ intPart \o fracPart # <<>>
     /\ hasExp => (expDigits # <<>> /\ allDigits(expDigits))
  THEN Num((IF neg THEN -1 ELSE 1) * digitsValue(intPart \o fracPart, 0),
           (IF expNeg THEN -1 ELSE 1) * digitsValue(expDigits, 0) - Len(fracPart))
  ELSE NotANumber

numberOfParts(neg, mantissa, hasExp, expPart) ==
  numberOfFields(neg,
                 SubSeq(mantissa, 1, firstOf(mantissa, {CC.dot}) - 1),
                 SubSeq(mantissa, firstOf(mantissa, {CC.dot}) + 1, Len(mantissa)),
                 hasExp,
                 expPart # <<>> /\ Head(expPart) = CC.minus,
                 IF expPart # <<>> /\ Head(expPart) \in {CC.minus, CC.plus}
                 THEN Tail(expPart) ELSE expPart)

numberOfBody(neg, body) ==
  numberOfParts(neg,
                SubSeq(body, 1, firstOf(body, {CC.e, CC.E}) - 1),
                firstOf(body, {CC.e, CC.E}) <= Len(body),
                SubSeq(body, firstOf(body, {CC.e, CC.E}) + 1, Len(body)))

Number(str) ==
  IF str # <<>> /\ Head(str) = CC.minus
  THEN numberOfBody(TRUE, Tail(str))
  ELSE numberOfBody(FALSE, str)

\* ---------------------------------------------------------------- machine

\* One call of parse(text, errors, options), as a record:
\*   scanner          the closure variables of visit's _scanner
\*   jsonPath         visit's _jsonPath: keys [k |-> "key", s] and indices [k |-> "idx", i]
\*   stack, ret       the JavaScript call stack below visit, and the value the
\*                    callee that returned last has returned
\*   events           every visitor callback visit has invoked so far, with the
\*                    arguments the to...Visit wrappers pass
\*   currentProperty, currentParent, previousParents, heap, errors
\*                    the closure variables of parse; heap holds the objects and
\*                    arrays it has created, heap[1] being the initial []
\*   snapshots        the arrays the path accessors have returned to the visitor,
\*                    in the order of the calls
\*   status           "running", "returned" or "thrown"; result is what parse returned
NewContainer(t) ==
  [t |-> t, keys |-> <<>>, vals |-> <<>>, proto |-> [t |-> "default"]]

NewMachine(text, options) ==
  [text |-> text, options |-> options, scanner |-> NewScanner,
   jsonPath |-> <<>>, stack |-> <<[fn |-> "visit", pc |-> "start"]>>,
   ret |-> FALSE, events |-> <<>>,
   currentProperty |-> Null, currentParent |-> 1, previousParents |-> <<>>,
   heap |-> <<NewContainer("arr")>>, errors |-> <<>>, snapshots |-> <<>>,
   status |-> "running", exception |-> "none", result |-> Undefined]

Running(m) == m.status = "running"

\* Sequencing of statements: F runs unless an exception is already in flight.
Then(m, F(_)) == IF Running(m) THEN F(m) ELSE m

Throw(m, what) == [m EXCEPT !.status = "thrown", !.exception = what]

Token(m) == m.scanner.token

Top(m) == m.stack[Len(m.stack)]

Pop(m) == [m EXCEPT !.stack = SubSeq(@, 1, Len(@) - 1)]

Push(m, frame) == [m EXCEPT !.stack = Append(@, frame)]

SetTop(m, frame) == [m EXCEPT !.stack[Len(m.stack)] = frame]

\* ---------------------------------------------------------------- tree builder

ProtoKey ==
  <<CC.underscore, CC.underscore, CC.p, CC.r, CC.o, CC.t, CC.o,
    CC.underscore, CC.underscore>>

\* object[name] = cell on an ordinary object.  The name "__proto__" reaches the
\* accessor of Object.prototype: an object (or null) becomes the prototype, any
\* other value is ignored, and in both cases no own property is made.
setProperty(object, name, cell) ==
  IF name = ProtoKey
  THEN IF cell.t \in {"ref", "null"} THEN [object EXCEPT !.proto = cell] ELSE object
  ELSE IF \E i \in 1..Len(object.keys) : object.keys[i] = name
  THEN LET i == CHOOSE j \in 1..Len(object.keys) : object.keys[j] = name
       IN [object EXCEPT !.vals[i] = cell]
  ELSE [object EXCEPT !.keys = Append(@, name), !.vals = Append(@, cell)]

\* onValue with unshift in place of push: the value goes to the front of an array.
onValueUnshift(m, cell) ==
  IF m.heap[m.currentParent].t = "arr"
  THEN [m EXCEPT !.heap[m.currentParent].vals = <<cell>> \o @]
  ELSE IF m.currentProperty # Null
  THEN [m EXCEPT !.heap[m.currentParent] = setProperty(@, m.currentProperty.s, cell)]
  ELSE m

\* parse's onValue.
onValue(m, cell) ==
  IF m.heap[m.currentParent].t = "arr"
  THEN [m EXCEPT !.heap[m.currentParent].vals = Append(@, cell)]
  ELSE IF m.currentProperty # Null
  THEN [m EXCEPT !.heap[m.currentParent] = setProperty(@, m.currentProperty.s, cell)]
  ELSE m

\* visitor.onObjectBegin and visitor.onArrayBegin of parse.
visitorContainerBegin(m, t) ==
  [onValue([m EXCEPT !.heap = Append(@, NewContainer(t))], Ref(Len(m.heap) + 1))
     EXCEPT !.previousParents = Append(@, m.currentParent),
            !.currentParent = Len(m.heap) + 1,
            !.currentProperty = Null]

\* visitor.onObjectEnd and visitor.onArrayEnd of parse: previousParents.pop().
visitorContainerEnd(m) ==
  LET n == Len(m.previousParents)
  IN IF n = 0 THEN Throw(m, "TypeError")
     ELSE [m EXCEPT !.currentParent = m.previousParents[n],
                    !.previousParents = SubSeq(@, 1, n - 1)]

\* The visitor parse passes to visit; it has no onSeparator and no onComment.
visitor(m, cb, arg) ==
  IF cb = "onObjectBegin" THEN visitorContainerBegin(m, "obj")
  ELSE IF cb = "onArrayBegin" THEN visitorContainerBegin(m, "arr")
  ELSE IF cb = "onObjectProperty" THEN [m EXCEPT !.currentProperty = arg]
  ELSE IF cb \in {"onObjectEnd", "onArrayEnd"} THEN visitorContainerEnd(m)
  ELSE IF cb = "onLiteralValue" THEN onValue(m, arg)
  ELSE IF cb = "onError"
  THEN [m EXCEPT !.errors = Append(@, [error |-> arg.code,
                                       offset |-> m.scanner.tokenOffset,
                                       length |-> m.scanner.pos - m.scanner.tokenOffset])]
  ELSE m

\* return currentParent[0]
parseResult(m) ==
  LET p == m.heap[m.currentParent]
  IN IF p.t = "arr"
     THEN IF Len(p.vals) >= 1 THEN p.vals[1] ELSE Undefined
     ELSE IF \E i \in 1..Len(p.keys) : p.keys[i] = <<CC.d0>>
     THEN p.vals[CHOOSE i \in 1..Len(p.keys) : p.keys[i] = <<CC.d0>>]
     ELSE Undefined

\* ---------------------------------------------------------------- visit

\* An accessor that returns _jsonPath itself, not a copy.
liveJsonPath(m) == [copy |-> FALSE, elems |-> <<>>, touched |-> FALSE]

\* What the path accessor () => _jsonPath.slice() returns: a new array with the
\* elements _jsonPath has now.  An array is [copy, elems, touched]: copy tells
\* that it is an array of its own (FALSE would be _jsonPath itself, whose
\* elements are m.jsonPath), touched that the visitor has changed it.
sliceJsonPath(m) == [copy |-> TRUE, elems |-> m.jsonPath, touched |-> FALSE]

\* The wrappers toNoArgVisit, toNoArgVisitWithPath, toOneArgVisit and
\* toOneArgVisitWithPath: the callback gets the current token's offset, length,
\* start line and start character and, from the WithPath wrappers only, an
\* accessor that returns a copy of _jsonPath.  The visitor recorded in events
\* calls the accessor at once: path is what it sees there, pathRef the array
\* it got (its place in snapshots).
invoke(m, cb, arg, withPath) ==
  LET ev == [cb |-> cb, arg |-> arg,
             offset |-> m.scanner.tokenOffset,
             length |-> m.scanner.pos - m.scanner.tokenOffset,
             startLine |-> m.scanner.lineStartOffset,
             startCharacter |-> m.scanner.tokenOffset - m.scanner.prevTokenLineStartOffset,
             hasPath |-> withPath,
             path |-> IF withPath THEN m.jsonPath ELSE <<>>,
             pathRef |-> IF withPath THEN Len(m.snapshots) + 1 ELSE 0]
  IN visitor([m EXCEPT !.events = Append(@, ev),
                       !.snapshots = IF withPath THEN Append(@, sliceJsonPath(m))
                                     ELSE @],
             cb, arg)

NoArg == [t |-> "none"]

onObjectBegin(m) == invoke(m, "onObjectBegin", NoArg, TRUE)

onObjectProperty(m, name) == invoke(m, "onObjectProperty", name, TRUE)

\* onObjectEnd bound with toNoArgVisitWithPath.
onObjectEndWithPath(m) == invoke(m, "onObjectEnd", NoArg, TRUE)

onObjectEnd(m) == invoke(m, "onObjectEnd", NoArg, FALSE)

onArrayBegin(m) == invoke(m, "onArrayBegin", NoArg, TRUE)

onArrayEnd(m) == invoke(m, "onArrayEnd", NoArg, FALSE)

onLiteralValue(m, value) == invoke(m, "onLiteralValue", value, TRUE)

onSeparator(m, ch) == invoke(m, "onSeparator", Str(<<ch>>), FALSE)

onComment(m) == invoke(m, "onComment", NoArg, FALSE)

onError(m, code) == invoke(m, "onError", [t |-> "error", code |-> code], FALSE)

\* visit names every error it reports ParseErrorCode.<member> (part_002 lines
\* 161-381), but the module neither declares nor imports ParseErrorCode and no
\* global of that name exists.  A call handleError(ParseErrorCode.<code>, ...)
\* therefore raises ReferenceError while its first argument is evaluated, before
\* handleError is entered; out of visit and parse nothing catches it.
callHandleError(m, code, skipUntilAfter, skipUntil) == Throw(m, "ReferenceError")

InSeq(x, seq) == \E i \in 1..Len(seq) : seq[i] = x

\* _scanner.scan of the scanner visit creates: createScanner(text, false).
scan(text, s) == scanNext(text, s)

\* The first switch of visit's scanNext: the scan error of the token just scanned.
reportScanError(m) ==
  LET err == m.scanner.scanError
  IN IF err = ScanError.InvalidUnicode
     THEN callHandleError(m, "InvalidUnicode", <<>>, <<>>)
     ELSE IF err = ScanError.InvalidEscapeCharacter
     THEN callHandleError(m, "InvalidEscapeCharacter", <<>>, <<>>)
     ELSE IF err = ScanError.UnexpectedEndOfNumber
     THEN callHandleError(m, "UnexpectedEndOfNumber", <<>>, <<>>)
     ELSE IF err = ScanError.UnexpectedEndOfComment
     THEN IF ~m.options.disallowComments
          THEN callHandleError(m, "UnexpectedEndOfComment", <<>>, <<>>)
          ELSE m
     ELSE IF err = ScanError.UnexpectedEndOfString
     THEN callHandleError(m, "UnexpectedEndOfString", <<>>, <<>>)
     ELSE IF err = ScanError.InvalidCharacter
     THEN callHandleError(m, "InvalidCharacter", <<>>, <<>>)
     ELSE m

\* commentToken with the test of disallowComments inverted.
commentTokenInverted(m) ==
  IF ~m.options.disallowComments
  THEN callHandleError(m, "InvalidCommentToken", <<>>, <<>>)
  ELSE onComment(m)

\* The second switch of visit's scanNext for a comment token.
commentToken(m) ==
  IF m.options.disallowComments
  THEN callHandleError(m, "InvalidCommentToken", <<>>, <<>>)
  ELSE onComment(m)

RECURSIVE visitScanNext(_)
RECURSIVE tokenSwitch(_)

\* The second switch of visit's scanNext: a comment, an unknown token and trivia
\* go round the loop, any other token is returned.
tokenSwitch(m) ==
  IF ~Running(m) THEN m
  ELSE IF Token(m) \in {SyntaxKind.LineCommentTrivia, SyntaxKind.BlockCommentTrivia}
  THEN Then(commentToken(m), visitScanNext)
  ELSE IF Token(m) = SyntaxKind.Unknown
  THEN Then(callHandleError(m, "InvalidSymbol", <<>>, <<>>), visitScanNext)
  ELSE IF Token(m) \in {SyntaxKind.Trivia, SyntaxKind.LineBreakTrivia}
  THEN visitScanNext(m)
  ELSE m

\* visit's scanNext().
visitScanNext(m) ==
  tokenSwitch(reportScanError([m EXCEPT !.scanner = scan(m.text, m.scanner)]))

RECURSIVE skipLoop(_, _, _)
\* The while (token !== SyntaxKind.EOF) loop of handleError.
skipLoop(m, skipUntilAfter, skipUntil) ==
  IF ~Running(m) \/ Token(m) = SyntaxKind.EOF THEN m
  ELSE IF InSeq(Token(m), skipUntilAfter) THEN visitScanNext(m)
  ELSE IF InSeq(Token(m), skipUntil) THEN m
  ELSE skipLoop(visitScanNext(m), skipUntilAfter, skipUntil)

\* The body of handleError.  No call reaches it (see callHandleError).
handleError(m, error, skipUntilAfter, skipUntil) ==
  IF Len(skipUntilAfter) + Len(skipUntil) > 0
  THEN Then(onError(m, error), LAMBDA x : skipLoop(x, skipUntilAfter, skipUntil))
  ELSE onError(m, error)

\* A frame of the call stack: the function, where it resumes, and the locals of
\* parseObject and parseArray.
Frame(fn, pc) == [fn |-> fn, pc |-> pc, needsComma |-> FALSE, isFirstElement |-> TRUE]

\* return b from the function on top of the stack.
Return(m, b) == [Pop(m) EXCEPT !.ret = b]

ReturnTrue(m) == Return(m, TRUE)

ReturnFalse(m) == Return(m, FALSE)

\* visit returns b; parse then returns currentParent[0].
visitReturn(m, b) ==
  [m EXCEPT !.stack = <<>>, !.ret = b, !.status = "returned",
            !.result = parseResult(m)]

visitReturnTrue(m) == visitReturn(m, TRUE)

visitReturnFalse(m) == visitReturn(m, FALSE)

Key(s) == [k |-> "key", s |-> s]

Idx(i) == [k |-> "idx", i |-> i]

\* _jsonPath[_jsonPath.length - 1]++
incrementLast(path) ==
  IF Len(path) = 0 THEN path
  ELSE IF path[Len(path)].k = "idx" THEN [path EXCEPT ![Len(path)] = Idx(@.i + 1)]
  ELSE [path EXCEPT ![Len(path)] = [k |-> "nan"]]

\* popPath without the pop: the segment stays on the path.
popPathKept(m) == m

\* _jsonPath.pop().
popPath(m) == [m EXCEPT !.jsonPath = SubSeq(@, 1, Len(@) - 1)]

\* parseValue() is called: the caller will resume at pc.
callParseValue(m, pc) ==
  Push(SetTop(m, [Top(m) EXCEPT !.pc = pc]), Frame("parseValue", "start"))

\* ---- the body of visit (lines 368-383)

firstToken(m) ==
  IF Token(m) = SyntaxKind.EOF
  THEN IF m.options.allowEmptyContent
       THEN visitReturnTrue(m)
       ELSE Then(callHandleError(m, "ValueExpected", <<>>, <<>>), visitReturnFalse)
  ELSE callParseValue(m, "afterValue")

visitStart(m) == Then(visitScanNext(m), firstToken)

visitAfterValue(m) ==
  IF ~m.ret
  THEN Then(callHandleError(m, "ValueExpected", <<>>, <<>>), visitReturnFalse)
  ELSE IF Token(m) # SyntaxKind.EOF
  THEN Then(callHandleError(m, "EndOfFileExpected", <<>>, <<>>), visitReturnTrue)
  ELSE visitReturnTrue(m)

\* ---- parseString(true) and parseLiteral, reached from parseValue

\* scanNext(); return true;
scanAndReturnTrue(m) == Then(visitScanNext(m), ReturnTrue)

parseStringValue(m) ==
  Then(onLiteralValue(m, Str(m.scanner.value)), scanAndReturnTrue)

\* case SyntaxKind.NumericLiteral, value being Number(tokenValue).
numericLiteral(m, value) ==
  IF value = NotANumber
  THEN Then(callHandleError(m, "InvalidNumberFormat", <<>>, <<>>),
            LAMBDA x : onLiteralValue(x, Num(0, 0)))
  ELSE onLiteralValue(m, value)

parseLiteral(m) ==
  IF Token(m) = SyntaxKind.NumericLiteral
  THEN Then(numericLiteral(m, Number(m.scanner.value)), scanAndReturnTrue)
  ELSE IF Token(m) = SyntaxKind.NullKeyword
  THEN Then(onLiteralValue(m, Null), scanAndReturnTrue)
  ELSE IF Token(m) = SyntaxKind.TrueKeyword
  THEN Then(onLiteralValue(m, Bool(TRUE)), scanAndReturnTrue)
  ELSE IF Token(m) = SyntaxKind.FalseKeyword
  THEN Then(onLiteralValue(m, Bool(FALSE)), scanAndReturnTrue)
  ELSE ReturnFalse(m)

\* ---- parseArray

enterArrayLoop(m) == SetTop(m, Frame("parseArray", "loop"))

parseArrayBegin(m) == Then(Then(onArrayBegin(m), visitScanNext), enterArrayLoop)

\* arrayElement with the first index pushed as 1 instead of 0.
arrayElementOneBased(m) ==
  callParseValue(
    [m EXCEPT !.jsonPath = IF Top(m).isFirstElement THEN Append(@, Idx(1))
                           ELSE incrementLast(@),
              !.stack[Len(m.stack)].isFirstElement = FALSE],
    "afterValue")

\* The part of one loop iteration after the comma is handled: the index is
\* pushed or incremented and parseValue is called.
arrayElement(m) ==
  callParseValue(
    [m EXCEPT !.jsonPath = IF Top(m).isFirstElement THEN Append(@, Idx(0))
                           ELSE incrementLast(@),
              !.stack[Len(m.stack)].isFirstElement = FALSE],
    "afterValue")

loopExit(m) == SetTop(m, [Top(m) EXCEPT !.pc = "end"])

\* if (!needsComma) handleError(ValueExpected); onSeparator(","); scanNext();
commaSeparator(m) ==
  Then(Then(IF ~Top(m).needsComma
            THEN callHandleError(m, "ValueExpected", <<>>, <<>>)
            ELSE m,
            LAMBDA x : onSeparator(x, CC.comma)),
       visitScanNext)

arrayAfterComma(m) ==
  IF Token(m) = SyntaxKind.CloseBracketToken /\ m.options.allowTrailingComma
  THEN loopExit(m)
  ELSE arrayElement(m)

parseArrayLoop(m) ==
  IF Token(m) \in {SyntaxKind.CloseBracketToken, SyntaxKind.EOF}
  THEN loopExit(m)
  ELSE IF Token(m) = SyntaxKind.CommaToken
  THEN Then(commaSeparator(m), arrayAfterComma)
  ELSE IF Top(m).needsComma
  THEN Then(callHandleError(m, "CommaExpected", <<>>, <<>>), arrayElement)
  ELSE arrayElement(m)

\* needsComma = true, and round the loop.
nextIteration(m) ==
  SetTop(m, [Top(m) EXCEPT !.needsComma = TRUE, !.pc = "loop"])

parseArrayElementDone(m) ==
  IF ~m.ret
  THEN Then(callHandleError(m, "ValueExpected", <<>>,
                            <<SyntaxKind.CloseBracketToken, SyntaxKind.CommaToken>>),
            nextIteration)
  ELSE nextIteration(m)

closeBracket(m) ==
  IF Token(m) # SyntaxKind.CloseBracketToken
  THEN callHandleError(m, "CloseBracketExpected", <<SyntaxKind.CloseBracketToken>>, <<>>)
  ELSE visitScanNext(m)

popIndex(m) == IF ~Top(m).isFirstElement THEN popPath(m) ELSE m

parseArrayEnd(m) ==
  Then(Then(Then(onArrayEnd(m), popIndex), closeBracket), ReturnTrue)

\* ---- parseObject and parseProperty

enterObjectLoop(m) == SetTop(m, Frame("parseObject", "loop"))

parseObjectBegin(m) == Then(Then(onObjectBegin(m), visitScanNext), enterObjectLoop)

callParseProperty(m) ==
  Push(SetTop(m, [Top(m) EXCEPT !.pc = "afterProperty"]), Frame("parseProperty", "start"))

\* objectAfterComma without the break on a closing brace.
objectAfterCommaNoBreak(m) == callParseProperty(m)

objectAfterComma(m) ==
  IF Token(m) = SyntaxKind.CloseBraceToken /\ m.options.allowTrailingComma
  THEN loopExit(m)
  ELSE callParseProperty(m)

parseObjectLoop(m) ==
  IF Token(m) \in {SyntaxKind.CloseBraceToken, SyntaxKind.EOF}
  THEN loopExit(m)
  ELSE IF Token(m) = SyntaxKind.CommaToken
  THEN Then(commaSeparator(m), objectAfterComma)
  ELSE IF Top(m).needsComma
  THEN Then(callHandleError(m, "CommaExpected", <<>>, <<>>), callParseProperty)
  ELSE callParseProperty(m)

popAndReturnTrue(m) == Return(popPath(m), TRUE)

\* parseProperty after the name: the colon, and the call of parseValue.
propertyColon(m) ==
  IF Token(m) = SyntaxKind.ColonToken
  THEN Then(Then(onSeparator(m, CC.colon), visitScanNext),
            LAMBDA x : callParseValue(x, "afterValue"))
  ELSE Then(callHandleError(m, "ColonExpected", <<>>,
                            <<SyntaxKind.CloseBraceToken, SyntaxKind.CommaToken>>),
            popAndReturnTrue)

\* parseString(false): the property name.
propertyName(m) ==
  Then(Then(onObjectProperty(m, Str(m.scanner.value)),
            LAMBDA x : [x EXCEPT !.jsonPath = Append(@, Key(m.scanner.value))]),
       visitScanNext)

\* parseProperty up to its call of parseValue.
parseProperty(m) ==
  IF Token(m) # SyntaxKind.StringLiteral
  THEN Then(callHandleError(m, "PropertyNameExpected", <<>>,
                            <<SyntaxKind.CloseBraceToken, SyntaxKind.CommaToken>>),
            ReturnFalse)
  ELSE Then(propertyName(m), propertyColon)

parsePropertyEnd(m) ==
  IF ~m.ret
  THEN Then(callHandleError(m, "ValueExpected", <<>>,
                            <<SyntaxKind.CloseBraceToken, SyntaxKind.CommaToken>>),
            popAndReturnTrue)
  ELSE popAndReturnTrue(m)

parseObjectPropertyDone(m) ==
  IF ~m.ret
  THEN Then(callHandleError(m, "ValueExpected", <<>>,
                            <<SyntaxKind.CloseBraceToken, SyntaxKind.CommaToken>>),
            nextIteration)
  ELSE nextIteration(m)

closeBrace(m) ==
  IF Token(m) # SyntaxKind.CloseBraceToken
  THEN callHandleError(m, "CloseBraceExpected", <<SyntaxKind.CloseBraceToken>>, <<>>)
  ELSE visitScanNext(m)

parseObjectEnd(m) == Then(Then(onObjectEnd(m), closeBrace), ReturnTrue)

\* ---- which step the program takes next

At(m, fn, pc) == Running(m) /\ m.stack # <<>> /\ Top(m).fn = fn /\ Top(m).pc = pc

AtValue(m, tokens) == At(m, "parseValue", "start") /\ Token(m) \in tokens

ValueStarters ==
  {SyntaxKind.OpenBracketToken, SyntaxKind.OpenBraceToken, SyntaxKind.StringLiteral}

AllKinds == 1..17

Step(m) ==
  IF At(m, "visit", "start") THEN visitStart(m)
  ELSE IF At(m, "visit", "afterValue") THEN visitAfterValue(m)
  ELSE IF AtValue(m, {SyntaxKind.OpenBracketToken}) THEN parseArrayBegin(m)
  ELSE IF AtValue(m, {SyntaxKind.OpenBraceToken}) THEN parseObjectBegin(m)
  ELSE IF AtValue(m, {SyntaxKind.StringLiteral}) THEN parseStringValue(m)
  ELSE IF AtValue(m, AllKinds \ ValueStarters) THEN parseLiteral(m)
  ELSE IF At(m, "parseArray", "loop") THEN parseArrayLoop(m)
  ELSE IF At(m, "parseArray", "afterValue") THEN parseArrayElementDone(m)
  ELSE IF At(m, "parseArray", "end") THEN parseArrayEnd(m)
  ELSE IF At(m, "parseObject", "loop") THEN parseObjectLoop(m)
  ELSE IF At(m, "parseObject", "afterProperty") THEN parseObjectPropertyDone(m)
  ELSE IF At(m, "parseObject", "end") THEN parseObjectEnd(m)
  ELSE IF At(m, "parseProperty", "start") THEN parseProperty(m)
  ELSE IF At(m, "parseProperty", "afterValue") THEN parsePropertyEnd(m)
  ELSE m

RECURSIVE Run(_)
\* The call run to its end.
Run(m) == IF Running(m) THEN Run(Step(m)) ELSE m

\* parse(text, errors = [], options) as a function of its arguments.
parse(text, options) == Run(NewMachine(text, options))

\* ---------------------------------------------------------------- JSON values

\* A value tree: scalars as above, [t |-> "arr", vals] and [t |-> "obj", keys, vals]
\* (the own enumerable properties, in insertion order).
Arr(vals) == [t |-> "arr", vals |-> vals]

Obj(keys, vals) == [t |-> "obj", keys |-> keys, vals |-> vals]

RECURSIVE Materialize(_, _)
\* The tree a value denotes: what a reader of parse's result sees through the
\* references of the heap.
Materialize(heap, cell) ==
  IF cell.t # "ref" THEN cell
  ELSE LET c == heap[cell.r]
           vals == [i \in 1..Len(c.vals) |-> Materialize(heap, c.vals[i])]
       IN IF c.t = "arr" THEN Arr(vals) ELSE Obj(c.keys, vals)

RECURSIVE DeepEqual(_, _)
\* assert.deepEqual on value trees: arrays element by element, objects by their
\* sets of own keys and the values under each key.
DeepEqual(x, y) ==
  IF x.t # y.t THEN FALSE
  ELSE IF x.t = "arr"
  THEN /\ Len(x.vals) = Len(y.vals)
       /\ \A i \in 1..Len(x.vals) : DeepEqual(x.vals[i], y.vals[i])
  ELSE IF x.t = "obj"
  THEN /\ Len(x.keys) = Len(y.keys)
       /\ \A i \in 1..Len(x.keys) :
            \E j \in 1..Len(y.keys) :
              y.keys[j] = x.keys[i] /\ DeepEqual(x.vals[i], y.vals[j])
  ELSE x = y

RECURSIVE digitsOf(_)
\* The decimal digits of n > 0 as code units.
digitsOf(n) ==
  IF n < 10 THEN <<CC.d0 + n>> ELSE Append(digitsOf(n \div 10), CC.d0 + (n % 10))

zeros(n) == [i \in 1..n |-> CC.d0]

\* Number::toString(x) for x = m * 10^e, as JSON.stringify writes a number.
numberToString(x) ==
  LET abs == IF x.m < 0 THEN 0 - x.m ELSE x.m
      sign == IF x.m < 0 THEN <<CC.minus>> ELSE <<>>
      ds == digitsOf(abs)
      k == Len(ds)
      n == k + x.e
      ex == n - 1
      exs == IF ex < 0 THEN <<CC.minus>> \o digitsOf(0 - ex)
             ELSE <<CC.plus>> \o digitsOf(ex)
  IN IF x.m = 0 THEN <<CC.d0>>
     ELSE sign \o
       (IF k <= n /\ n <= 21 THEN ds \o zeros(n - k)
        ELSE IF 0 < n /\ n <= 21
        THEN SubSeq(ds, 1, n) \o <<CC.dot>> \o SubSeq(ds, n + 1, k)
        ELSE IF -6 < n /\ n <= 0
        THEN <<CC.d0, CC.dot>> \o zeros(0 - n) \o ds
        ELSE IF k = 1 THEN ds \o <<CC.e>> \o exs
        ELSE <<ds[1], CC.dot>> \o SubSeq(ds, 2, k) \o <<CC.e>> \o exs)

hexDigit(n) == IF n < 10 THEN CC.d0 + n ELSE CC.a + (n - 10)

\* QuoteJSONString for one code unit below 0x80.
quoteUnit(c) ==
  IF c = CC.doubleQuote THEN <<CC.backslash, CC.doubleQuote>>
  ELSE IF c = CC.backslash THEN <<CC.backslash, CC.backslash>>
  ELSE IF c = CC.backspace THEN <<CC.backslash, CC.b>>
  ELSE IF c = CC.formFeed THEN <<CC.backslash, CC.f>>
  ELSE IF c = CC.lineFeed THEN <<CC.backslash, CC.n>>
  ELSE IF c = CC.carriageReturn THEN <<CC.backslash, CC.r>>
  ELSE IF c = CC.tab THEN <<CC.backslash, CC.t>>
  ELSE IF c < 32
  THEN <<CC.backslash, CC.u, CC.d0, CC.d0, hexDigit(c \div 16), hexDigit(c % 16)>>
  ELSE <<c>>

RECURSIVE quoteUnits(_)
quoteUnits(s) == IF s = <<>> THEN <<>> ELSE quoteUnit(Head(s)) \o quoteUnits(Tail(s))

quote(s) == <<CC.doubleQuote>> \o quoteUnits(s) \o <<CC.doubleQuote>>

RECURSIVE Tokens(_)
RECURSIVE memberTokens(_, _)
\* The tokens of elements (or key:value members) i..n of a container, with the
\* commas between them.
memberTokens(v, i) ==
  IF i > Len(v.vals) THEN <<>>
  ELSE (IF i > 1 THEN << <<CC.comma>> >> ELSE <<>>)
       \o (IF v.t = "obj" THEN <<quote(v.keys[i]), <<CC.colon>> >> ELSE <<>>)
       \o Tokens(v.vals[i])
       \o memberTokens(v, i + 1)

\* JSON.stringify(v), token by token.
Tokens(v) ==
  IF v.t = "null" THEN <<kwNull>>
  ELSE IF v.t = "bool" THEN << IF v.b THEN kwTrue ELSE kwFalse >>
  ELSE IF v.t = "num" THEN <<numberToString(v)>>
  ELSE IF v.t = "str" THEN <<quote(v.s)>>
  ELSE IF v.t = "arr"
  THEN << <<CC.openBracket>> >> \o memberTokens(v, 1) \o << <<CC.closeBracket>> >>
  ELSE << <<CC.openBrace>> >> \o memberTokens(v, 1) \o << <<CC.closeBrace>> >>

RECURSIVE Concat(_)
Concat(ss) == IF ss = <<>> THEN <<>> ELSE Head(ss) \o Concat(Tail(ss))

\* JSON.stringify(v).
Serialize(v) == Concat(Tokens(v))

\* ---------------------------------------------------------------- inputs

\* The longest text of the exhaustive enumeration, the most nodes (scalars,
\* arrays, objects) of an enumerated value, and the most comments put into one
\* document.
MaxLen == 3

MaxNodes == 3

MaxComments == 1

\* The code units the enumerated texts are written with.
Alphabet ==
  {CC.openBrace, CC.closeBrace, CC.openBracket, CC.closeBracket, CC.comma,
   CC.colon, CC.doubleQuote, CC.d1, CC.a, CC.minus, CC.slash, CC.asterisk,
   CC.space, CC.lineFeed}

RECURSIVE TextsOfLen(_)
TextsOfLen(n) ==
  IF n = 0 THEN {<<>>}
  ELSE {Append(t, c) : t \in TextsOfLen(n - 1), c \in Alphabet}

Texts == UNION {TextsOfLen(n) : n \in 0..MaxLen}

Options ==
  [allowTrailingComma : BOOLEAN, disallowComments : BOOLEAN,
   allowEmptyContent : BOOLEAN]

\* parse(text) and parse(text, errors): options = { allowTrailingComma: false }.
DefaultOptions ==
  [allowTrailingComma |-> FALSE, disallowComments |-> FALSE,
   allowEmptyContent |-> FALSE]

keyA == <<CC.a>>

keyB == <<CC.b>>

\* "a\"\\\n\u0001/": one string with every kind of character JSON.stringify escapes.
EscapedString == <<CC.a, CC.doubleQuote, CC.backslash, CC.lineFeed, 1, CC.slash>>

Scalars == {Null, Num(15, -1), Str(EscapedString)}

Keys == {keyA, ProtoKey}

RECURSIVE ValuesOfSize(_)
RECURSIVE SeqsOfSize(_)
\* The sequences of values with n nodes in all.
SeqsOfSize(n) ==
  IF n = 0 THEN {<<>>}
  ELSE UNION {{<<v>> \o rest : v \in ValuesOfSize(j), rest \in SeqsOfSize(n - j)} :
              j \in 1..n}

\* The property names of an object: no name twice.
KeySeqs(n) ==
  {ks \in [1..n -> Keys] : \A i, j \in 1..n : i # j => ks[i] # ks[j]}

\* The values with exactly n nodes.
ValuesOfSize(n) ==
  IF n = 1 THEN Scalars \cup {Arr(<<>>), Obj(<<>>, <<>>)}
  ELSE {Arr(vs) : vs \in SeqsOfSize(n - 1)}
       \cup UNION {{Obj(ks, vs) : ks \in KeySeqs(Len(vs))} : vs \in SeqsOfSize(n - 1)}

Values == UNION {ValuesOfSize(n) : n \in 1..MaxNodes}

\* {"a":[1,{"b":2}]}
PathExample ==
  Obj(<<keyA>>, <<Arr(<<Num(1, 0), Obj(<<keyB>>, <<Num(2, 0)>>)>>)>>)

\* The sample of __tests__/jsonc-parser.test.mjs, with one-letter names:
\* {"a":{"b":["a",1,2,false,true,null]}}
TestSample ==
  Obj(<<keyA>>, <<Obj(<<keyB>>, <<Arr(<<Str(keyA), Num(1, 0), Num(2, 0),
                                        Bool(FALSE), Bool(TRUE), Null>>)>>)>>)

ExampleValues ==
  {PathExample, TestSample, Bool(FALSE), Bool(TRUE), Num(0, 0), Num(-12, 0),
   Num(1, 21), Num(1, -7),
   Num(-125, -2), Num(120, 0), Str(<<>>), Obj(<<<<>>>>, <<Str(<<>>)>>),
   Str(<<CC.backspace, CC.formFeed, CC.carriageReturn, CC.tab, 31, 127>>)}

Documents == Values \cup ExampleValues

\* The comments put between tokens: /*a<LF>*/, /***/, //a/*<LF>, and at the very
\* end of the text also //a, which the end of the text ends.
BlockComments ==
  {<<CC.slash, CC.asterisk, CC.a, CC.lineFeed, CC.asterisk, CC.slash>>,
   <<CC.slash, CC.asterisk, CC.asterisk, CC.asterisk, CC.slash>>}

LineComments ==
  {<<CC.slash, CC.slash, CC.a, CC.slash, CC.asterisk, CC.lineFeed>>}

\* //a
OpenLineComment == <<CC.slash, CC.slash, CC.a>>

RECURSIVE PlansFrom(_, _, _)
\* The ways of putting at most k comments into the gaps lo..hi of a token
\* sequence (gap g is the place before token g + 1), as sequences of
\* [gap, comment] in the order of the text.
PlansFrom(lo, hi, k) ==
  {<<>>} \cup
  (IF k = 0 THEN {}
   ELSE UNION {{<<[gap |-> g, comment |-> c]>> \o rest :
                  c \in BlockComments \cup LineComments,
                  rest \in PlansFrom(g, hi, k - 1)} :
               g \in lo..hi}
        \cup {<<[gap |-> hi, comment |-> OpenLineComment]>>})

Plans(tokens) == PlansFrom(0, Len(tokens), MaxComments)

RECURSIVE commentsIn(_, _, _)
\* The comments a plan puts into gap g, from the plan's i-th entry on.
commentsIn(plan, g, i) ==
  IF i > Len(plan) THEN <<>>
  ELSE (IF plan[i].gap = g THEN plan[i].comment ELSE <<>>) \o commentsIn(plan, g, i + 1)

RECURSIVE Render(_, _, _)
\* The text of tokens g + 1 .. with the comments of the plan in the gaps g .. .
Render(tokens, plan, g) ==
  commentsIn(plan, g, 1) \o
  (IF g = Len(tokens) THEN <<>>
   ELSE tokens[g + 1] \o Render(tokens, plan, g + 1))

\* A serialized container with a comma put before its closing token.
WithTrailingComma(v) ==
  SubSeq(Serialize(v), 1, Len(Serialize(v)) - 1)
    \o <<CC.comma, Serialize(v)[Len(Serialize(v))]>>

\* {"a":1,}  [1,]  {"a":[1,{"b":2}],}
TrailingCommaDocs ==
  {Obj(<<keyA>>, <<Num(1, 0)>>), Arr(<<Num(1, 0)>>), PathExample}

\* Texts with a comma before more than one closing token, or with white space
\* between the comma and the closing token, each with the value it stands for:
\* [[1,],]   {"a":{"b":1,},}   [1,<LF> ]
TrailingCommaExamples ==
  {[text |-> <<CC.openBracket, CC.openBracket, CC.d1, CC.comma, CC.closeBracket,
               CC.comma, CC.closeBracket>>,
    value |-> Arr(<<Arr(<<Num(1, 0)>>)>>)],
   [text |-> <<CC.openBrace, CC.doubleQuote, CC.a, CC.doubleQuote, CC.colon,
               CC.openBrace, CC.doubleQuote, CC.b, CC.doubleQuote, CC.colon, CC.d1,
               CC.comma, CC.closeBrace, CC.comma, CC.closeBrace>>,
    value |-> Obj(<<keyA>>, <<Obj(<<keyB>>, <<Num(1, 0)>>)>>)],
   [text |-> <<CC.openBracket, CC.d1, CC.comma, CC.lineFeed, CC.space,
               CC.closeBracket>>,
    value |-> Arr(<<Num(1, 0)>>)]}

\* [,]   {,}
LoneCommaExamples ==
  {<<CC.openBracket, CC.comma, CC.closeBracket>>,
   <<CC.openBrace, CC.comma, CC.closeBrace>>}

\* Objects with one malformed property between two well-formed ones, a missing
\* name or a missing colon:
\* {"a":1,:2,"b":1}   {"a":1,"c" 2,"b":1}
MalformedPropertyExamples ==
  {<<CC.openBrace, CC.doubleQuote, CC.a, CC.doubleQuote, CC.colon, CC.d1, CC.comma,
     CC.colon, CC.d2, CC.comma, CC.doubleQuote, CC.b, CC.doubleQuote, CC.colon, CC.d1,
     CC.closeBrace>>,
   <<CC.openBrace, CC.doubleQuote, CC.a, CC.doubleQuote, CC.colon, CC.d1, CC.comma,
     CC.doubleQuote, CC.c, CC.doubleQuote, CC.space, CC.d2, CC.comma, CC.doubleQuote,
     CC.b, CC.doubleQuote, CC.colon, CC.d1, CC.closeBrace>>}

\* A closer of the other kind inside a nested container:
\* [{]}]   {"a":[}]}
MismatchedCloserExamples ==
  {<<CC.openBracket, CC.openBrace, CC.closeBracket, CC.closeBrace, CC.closeBracket>>,
   <<CC.openBrace, CC.doubleQuote, CC.a, CC.doubleQuote, CC.colon, CC.openBracket,
     CC.closeBrace, CC.closeBracket, CC.closeBrace>>}

\* Arrays with a missing value or an extra comma:
\* [1,,2]   [,1]
ExtraCommaExamples ==
  {<<CC.openBracket, CC.d1, CC.comma, CC.comma, CC.d2, CC.closeBracket>>,
   <<CC.openBracket, CC.comma, CC.d1, CC.closeBracket>>}

\* {"a": }
ValueMissingExample ==
  <<CC.openBrace, CC.doubleQuote, CC.a, CC.doubleQuote, CC.colon, CC.space,
    CC.closeBrace>>

\* [}   {1}   [1 1]   {"a" 1}   [1,,1]   {"a":1
ErrorExamples ==
  {ValueMissingExample,
   <<CC.openBrace, CC.d1, CC.closeBrace>>,
   <<CC.openBracket, CC.d1, CC.space, CC.d1, CC.closeBracket>>,
   <<CC.openBrace, CC.doubleQuote, CC.a, CC.doubleQuote, CC.space, CC.d1,
     CC.closeBrace>>,
   <<CC.openBracket, CC.d1, CC.comma, CC.comma, CC.d1, CC.closeBracket>>,
   <<CC.openBrace, CC.doubleQuote, CC.a, CC.doubleQuote, CC.colon, CC.d1>>}

\* Strings with scan errors, the tab written <TAB>:
\* "\a"   "\u1"   "<TAB>"   "\a<TAB>"   "\a<TAB>\u1"   "\a
StringErrorExamples ==
  {<<CC.doubleQuote, CC.backslash, CC.a, CC.doubleQuote>>,
   <<CC.doubleQuote, CC.backslash, CC.u, CC.d1, CC.doubleQuote>>,
   <<CC.doubleQuote, CC.tab, CC.doubleQuote>>,
   <<CC.doubleQuote, CC.backslash, CC.a, CC.tab, CC.doubleQuote>>,
   <<CC.doubleQuote, CC.backslash, CC.a, CC.tab, CC.backslash, CC.u, CC.d1,
     CC.doubleQuote>>,
   <<CC.doubleQuote, CC.backslash, CC.a>>}

\* [1, /*a*/"a"//a
\* ]
TriviaExample ==
  <<CC.openBracket, CC.d1, CC.comma, CC.space, CC.slash, CC.asterisk, CC.a,
    CC.asterisk, CC.slash, CC.doubleQuote, CC.a, CC.doubleQuote, CC.slash,
    CC.slash, CC.a, CC.lineFeed, CC.closeBracket>>

\* The longest text that starts with a number.
MaxNumberLen == 4

\* 0 1 . e E + - and a letter that ends a number.
NumberUnits == {CC.d0, CC.d1, CC.dot, CC.e, CC.E, CC.plus, CC.minus, CC.a}

RECURSIVE NumberTails(_)
NumberTails(n) ==
  IF n = 0 THEN {<<>>}
  ELSE {<<>>} \cup {<<c>> \o t : c \in NumberUnits, t \in NumberTails(n - 1)}

\* The texts of up to MaxNumberLen units that start with a number: a digit, or
\* '-' and a digit, and then anything of NumberUnits.
NumberTexts ==
  {<<d>> \o t : d \in {CC.d0, CC.d1}, t \in NumberTails(MaxNumberLen - 1)}
  \cup {<<CC.minus, d>> \o t : d \in {CC.d0, CC.d1}, t \in NumberTails(MaxNumberLen - 2)}

\* Texts with every kind of line break, <CR> and <LF> written out:
\* 1<CR><LF>1<CR>1<LF><CR>1   /*<CR><LF>a<LF>*/<LF> 1   //a<CR><LF> 1
LineBreakExamples ==
  {<<CC.d1, CC.carriageReturn, CC.lineFeed, CC.d1, CC.carriageReturn, CC.d1,
     CC.lineFeed, CC.carriageReturn, CC.d1>>,
   <<CC.slash, CC.asterisk, CC.carriageReturn, CC.lineFeed, CC.a, CC.lineFeed,
     CC.asterisk, CC.slash, CC.lineFeed, CC.space, CC.d1>>,
   <<CC.slash, CC.slash, CC.a, CC.carriageReturn, CC.lineFeed, CC.space, CC.d1>>}

\* The texts given to a scanner.
ScanTexts ==
  Texts \cup {TriviaExample} \cup StringErrorExamples \cup NumberTexts
    \cup LineBreakExamples

\* ---------------------------------------------------------------- one-version

\* The strings of bin/index.mjs, as sequences of UTF-16 code units.
JS ==
  [packageManager |-> <<112, 97, 99, 107, 97, 103, 101, 77, 97, 110, 97, 103, 101, 114>>,
   versionStrategy |-> <<118, 101, 114, 115, 105, 111, 110, 83, 116, 114, 97, 116, 101, 103, 121>>,
   overrides |-> <<111, 118, 101, 114, 114, 105, 100, 101, 115>>,
   pin |-> <<112, 105, 110>>,
   loose |-> <<108, 111, 111, 115, 101>>,
   bun |-> <<98, 117, 110>>,
   npm |-> <<110, 112, 109>>,
   pnpm |-> <<112, 110, 112, 109>>,
   yarn |-> <<121, 97, 114, 110>>,
   yarnClassic |-> <<121, 97, 114, 110, 45, 99, 108, 97, 115, 115, 105, 99>>,
   yarnBerry |-> <<121, 97, 114, 110, 45, 98, 101, 114, 114, 121>>,
   name |-> <<110, 97, 109, 101>>,
   dependencies |-> <<100, 101, 112, 101, 110, 100, 101, 110, 99, 105, 101, 115>>,
   devDependencies |-> <<100, 101, 118, 68, 101, 112, 101, 110, 100, 101, 110, 99, 105, 101, 115>>,
   peerDependencies |-> <<112, 101, 101, 114, 68, 101, 112, 101, 110, 100, 101, 110, 99, 105, 101, 115>>,
   resolutions |-> <<114, 101, 115, 111, 108, 117, 116, 105, 111, 110, 115>>,
   direct |-> <<100, 105, 114, 101, 99, 116>>,
   peer |-> <<112, 101, 101, 114>>,
   dev |-> <<100, 101, 118>>,
   star |-> <<42>>,
   latest |-> <<108, 97, 116, 101, 115, 116>>,
   canary |-> <<99, 97, 110, 97, 114, 121>>,
   next |-> <<110, 101, 120, 116>>,
   beta |-> <<98, 101, 116, 97>>,
   alpha |-> <<97, 108, 112, 104, 97>>,
   rc |-> <<114, 99>>,
   filePrefix |-> <<102, 105, 108, 101, 58>>,
   urlPrefix |-> <<117, 114, 108, 58>>,
   gitPrefix |-> <<103, 105, 116, 58>>,
   linkPrefix |-> <<108, 105, 110, 107, 58>>,
   workspaceStar |-> <<119, 111, 114, 107, 115, 112, 97, 99, 101, 58, 42>>,
   workspaceCaret |-> <<119, 111, 114, 107, 115, 112, 97, 99, 101, 58, 94>>,
   workspaceTilde |-> <<119, 111, 114, 107, 115, 112, 97, 99, 101, 58, 126>>,
   caret |-> <<94>>,
   tilde |-> <<126>>,
   dotx |-> <<46, 120>>,
   dotX |-> <<46, 88>>,
   hyphenRange |-> <<32, 45, 32>>,
   orRange |-> <<32, 124, 124, 32>>,
   greater |-> <<62>>,
   less |-> <<60>>,
   at |-> <<64>>]

\* s.startsWith(prefix) and s.includes(part) on strings.
startsWith(s, prefix) ==
  Len(prefix) <= Len(s) /\ SubSeq(s, 1, Len(prefix)) = prefix

includes(s, part) ==
  \E i \in 0..(Len(s) - Len(part)) : SubSeq(s, i + 1, i + Len(part)) = part

\* !!value
Truthy(value) ==
  CASE value.t = "undefined" -> FALSE
    [] value.t = "null" -> FALSE
    [] value.t = "bool" -> value.b
    [] value.t = "str" -> value.s # <<>>
    [] value.t = "num" -> value # Num(0, 0) /\ value # NotANumber
    [] OTHER -> TRUE

HasKey(object, key) ==
  object.t = "obj" /\ \E i \in 1..Len(object.keys) : object.keys[i] = key

IndexOfKey(object, key) == CHOOSE i \in 1..Len(object.keys) : object.keys[i] = key

\* object?.[key]: undefined when object is undefined or has no such property.
Get(object, key) ==
  IF HasKey(object, key) THEN object.vals[IndexOfKey(object, key)] ELSE Undefined

EmptyObject == Obj(<<>>, <<>>)

\* { ...object }: a new object with the own properties of object, none when
\* object is undefined.
Spread(object) == IF object.t = "obj" THEN object ELSE EmptyObject

\* object[key] = value on an object of string keys: an existing property keeps
\* its place, a new one comes last.
Set(object, key, value) ==
  IF HasKey(object, key)
  THEN [object EXCEPT !.vals[IndexOfKey(object, key)] = value]
  ELSE Obj(Append(object.keys, key), Append(object.vals, value))

RECURSIVE assignFrom(_, _, _)
assignFrom(target, source, i) ==
  IF i > Len(source.keys) THEN target
  ELSE assignFrom(Set(target, source.keys[i], source.vals[i]), source, i + 1)

\* { ...a, ...b }
SpreadBoth(a, b) == assignFrom(Spread(a), Spread(b), 1)

\* list?.includes(item) for an array of strings (undefined: not included).
arrayIncludes(list, item) ==
  list.t = "arr" /\ \E i \in 1..Len(list.vals) : list.vals[i] = Str(item)

\* The specifiers that getUnpinnedDependencies lets pass.
isPassed(version) ==
  \/ startsWith(version, JS.filePrefix)
  \/ startsWith(version, JS.urlPrefix)
  \/ startsWith(version, JS.gitPrefix)
  \/ startsWith(version, JS.linkPrefix)
  \/ version = JS.workspaceStar

\* The specifiers that getUnpinnedDependencies takes for ranges or tags.
isUnpinned(version) ==
  \/ startsWith(version, JS.caret)
  \/ startsWith(version, JS.tilde)
  \/ includes(version, JS.star)
  \/ includes(version, JS.dotx)
  \/ includes(version, JS.dotX)
  \/ includes(version, JS.hyphenRange)
  \/ includes(version, JS.orRange)
  \/ includes(version, JS.greater)
  \/ includes(version, JS.less)
  \/ version \in {JS.latest, JS.canary, JS.next, JS.beta, JS.alpha, JS.rc, JS.dev}
  \/ startsWith(version, JS.workspaceCaret)
  \/ startsWith(version, JS.workspaceTilde)

\* overrides?.[packageName]?.[version]?.includes(workspaceName) || ...includes("*")
isOverridden(overrides, packageName, version, workspaceName) ==
  \/ arrayIncludes(Get(Get(overrides, packageName), version), workspaceName)
  \/ arrayIncludes(Get(Get(overrides, packageName), version), JS.star)

\* unpinnedDependencies[workspaceName] = unpinnedDependencies[workspaceName] || [];
\* unpinnedDependencies[workspaceName].push(`${packageName}@${version}`)
pushUnpinned(unpinnedDependencies, workspaceName, packageName, version) ==
  Set(unpinnedDependencies, workspaceName,
      Arr(Append(IF Truthy(Get(unpinnedDependencies, workspaceName))
                 THEN Get(unpinnedDependencies, workspaceName).vals ELSE <<>>,
                 Str(packageName \o JS.at \o version))))

RECURSIVE unpinnedOfEntries(_, _, _, _, _)
\* The inner loop of getUnpinnedDependencies over Object.entries(allDependencies).
unpinnedOfEntries(unpinnedDependencies, workspaceName, allDependencies, overrides, i) ==
  IF i > Len(allDependencies.keys) THEN unpinnedDependencies
  ELSE unpinnedOfEntries(
         IF /\ ~isPassed(allDependencies.vals[i].s)
            /\ isUnpinned(allDependencies.vals[i].s)
            /\ ~isOverridden(overrides, allDependencies.keys[i],
                             allDependencies.vals[i].s, workspaceName)
         THEN pushUnpinned(unpinnedDependencies, workspaceName,
                           allDependencies.keys[i], allDependencies.vals[i].s)
         ELSE unpinnedDependencies,
         workspaceName, allDependencies, overrides, i + 1)

RECURSIVE unpinnedOfWorkspaces(_, _, _, _)
\* The outer loop of getUnpinnedDependencies over workspaceDependencies.
unpinnedOfWorkspaces(unpinnedDependencies, workspaceDependencies, overrides, w) ==
  IF w > Len(workspaceDependencies) THEN unpinnedDependencies
  ELSE unpinnedOfWorkspaces(
         unpinnedOfEntries(unpinnedDependencies,
                           Get(workspaceDependencies[w], JS.name).s,
                           SpreadBoth(Get(workspaceDependencies[w], JS.dependencies),
                                      Get(workspaceDependencies[w], JS.devDependencies)),
                           overrides, 1),
         workspaceDependencies, overrides, w + 1)

getUnpinnedDependencies(workspaceDependencies, overrides) ==
  unpinnedOfWorkspaces(EmptyObject, workspaceDependencies, overrides, 1)

\* ---- getDuplicateDependencies

\* acc[packageName] = { ...acc[packageName],
\*   [version]: { ...acc[packageName]?.[version], [type]: seenConsumers.concat(consumerName) } }
addConsumer(acc, packageName, version, type, consumerName) ==
  Set(acc, packageName,
      Set(Spread(Get(acc, packageName)), version,
          Set(Spread(Get(Get(acc, packageName), version)), type,
              Arr(Append(IF Truthy(Get(Get(Get(acc, packageName), version), type))
                         THEN Get(Get(Get(acc, packageName), version), type).vals
                         ELSE <<>>,
                         consumerName)))))

RECURSIVE addConsumers(_, _, _, _, _)
\* for (let [packageName, version] of Object.entries(dependencies)) ..., skipped
\* when dependencies is undefined.
addConsumers(acc, dependencies, type, consumerName, i) ==
  IF ~Truthy(dependencies) THEN acc
  ELSE IF i > Len(dependencies.keys) THEN acc
  ELSE addConsumers(addConsumer(acc, dependencies.keys[i], dependencies.vals[i].s,
                                type, consumerName),
                    dependencies, type, consumerName, i + 1)

\* The reducer of getDuplicateDependencies for one workspace.
addWorkspace(acc, workspace) ==
  addConsumers(
    addConsumers(
      addConsumers(acc, Get(workspace, JS.dependencies), JS.direct,
                   Get(workspace, JS.name), 1),
      Get(workspace, JS.peerDependencies), JS.peer, Get(workspace, JS.name), 1),
    Get(workspace, JS.devDependencies), JS.dev, Get(workspace, JS.name), 1)

RECURSIVE dependenciesByNameAndVersion(_, _, _)
dependenciesByNameAndVersion(acc, workspaceDependencies, w) ==
  IF w > Len(workspaceDependencies) THEN acc
  ELSE dependenciesByNameAndVersion(addWorkspace(acc, workspaceDependencies[w]),
                                    workspaceDependencies, w + 1)

\* notOverridden(packageName) for the consumers of one version.
notOverridden(packageOverrides, version, consumer) ==
  /\ ~arrayIncludes(Get(packageOverrides, version), consumer.s)
  /\ ~arrayIncludes(Get(packageOverrides, version), JS.star)

\* The consumers of one type that are left after filter(notOverridden): the
\* property is set only when some are left.
filterType(filteredPackages, packageOverrides, version, dependents, type) ==
  IF /\ Truthy(Get(dependents, type))
     /\ SelectSeq(Get(dependents, type).vals,
                  LAMBDA c : notOverridden(packageOverrides, version, c)) # <<>>
  THEN Set(filteredPackages, type,
           Arr(SelectSeq(Get(dependents, type).vals,
                         LAMBDA c : notOverridden(packageOverrides, version, c))))
  ELSE filteredPackages

filteredPackagesOf(packageOverrides, version, dependents) ==
  filterType(
    filterType(
      filterType(EmptyObject, packageOverrides, version, dependents, JS.direct),
      packageOverrides, version, dependents, JS.peer),
    packageOverrides, version, dependents, JS.dev)

RECURSIVE filteredVersions(_, _, _, _)
\* Object.fromEntries of the versions whose filtered packages are not empty.
filteredVersions(out, packageOverrides, versions, i) ==
  IF i > Len(versions.keys) THEN out
  ELSE filteredVersions(
         IF filteredPackagesOf(packageOverrides, versions.keys[i], versions.vals[i]).keys
              # <<>>
         THEN Set(out, versions.keys[i],
                  filteredPackagesOf(packageOverrides, versions.keys[i], versions.vals[i]))
         ELSE out,
         packageOverrides, versions, i + 1)

\* The versions of one package that count: all of them when the package has no
\* overrides.
countedVersions(overrides, packageName, versions) ==
  IF Truthy(Get(overrides, packageName))
  THEN filteredVersions(EmptyObject, Get(overrides, packageName), versions, 1)
  ELSE versions

RECURSIVE duplicatesOf(_, _, _)
duplicatesOf(byName, overrides, i) ==
  IF i > Len(byName.keys) THEN <<>>
  ELSE (IF Len(countedVersions(overrides, byName.keys[i], byName.vals[i]).keys) > 1
        THEN <<[packageName |-> byName.keys[i],
                versions |-> countedVersions(overrides, byName.keys[i], byName.vals[i])]>>
        ELSE <<>>)
       \o duplicatesOf(byName, overrides, i + 1)

getDuplicateDependencies(workspaceDependencies, overrides) ==
  duplicatesOf(dependenciesByNameAndVersion(EmptyObject, workspaceDependencies, 1),
               overrides, 1)

\* ---- the root directory

\* A file of the root directory: there or not, and its contents.
NoFile == [exists |-> FALSE, content |-> <<>>]

File(content) == [exists |-> TRUE, content |-> content]

\* What parse returned, for its caller: the tree, or the exception.
configOf(m) ==
  IF m.status = "returned"
  THEN [threw |-> FALSE, value |-> Materialize(m.heap, m.result)]
  ELSE [threw |-> TRUE, value |-> Undefined]

\* The file loadConfig reads: one-version.config.jsonc if it exists, else
\* one-version.config.json.
configFile(rootDirectory) ==
  IF rootDirectory.configJsonc.exists THEN rootDirectory.configJsonc
  ELSE rootDirectory.configJson

\* loadConfig: the value parse returns for the file, or {} when readFileSync or
\* parse throws.
loadConfig(rootDirectory) ==
  IF ~configFile(rootDirectory).exists THEN EmptyObject
  ELSE IF configOf(parse(configFile(rootDirectory).content, DefaultOptions)).threw
  THEN EmptyObject
  ELSE configOf(parse(configFile(rootDirectory).content, DefaultOptions)).value

inferPackageManager(rootDirectory) ==
  IF "yarn.lock" \in rootDirectory.lockfiles
  THEN IF ".yarnrc.yml" \in rootDirectory.lockfiles THEN Str(JS.yarnBerry)
       ELSE Str(JS.yarnClassic)
  ELSE IF "pnpm-lock.yaml" \in rootDirectory.lockfiles THEN Str(JS.pnpm)
  ELSE IF "package-lock.json" \in rootDirectory.lockfiles THEN Str(JS.npm)
  ELSE IF "bun.lockb" \in rootDirectory.lockfiles \/ "bun.lock" \in rootDirectory.lockfiles
  THEN Str(JS.bun)
  ELSE Undefined

\* getWorkspaces followed by getDependencies for each workspace: the package.json
\* contents of the workspaces the package manager lists (yarn classic: the root
\* package first), or undefined for a package manager the switch has no case for.
getWorkspaces(rootDirectory, packageManager) ==
  IF packageManager = Str(JS.yarnClassic)
  THEN [found |-> TRUE, packages |-> <<rootDirectory.package>> \o rootDirectory.workspaces]
  ELSE IF packageManager \in {Str(JS.pnpm), Str(JS.yarnBerry), Str(JS.npm), Str(JS.bun)}
  THEN [found |-> TRUE, packages |-> rootDirectory.workspaces]
  ELSE [found |-> FALSE, packages |-> <<>>]

\* ---- inputs of one-version

\* The configuration example of README.md (lines 28-32), with its two comments
\* and the comma after "bun":
\*   {
\*     // one of: "bun", "yarn-berry", "yarn", "pnpm", "npm"
\*     // by default it will try to detect the package manager based on ...
\*     "packageManager": "bun",
\*   }
ReadmeConfig ==
  <<
    123, 10, 32, 32, 47, 47, 32, 111, 110, 101, 32, 111, 102, 58, 32, 34, 98, 117, 110,
    34, 44, 32, 34, 121, 97, 114, 110, 45, 98, 101, 114, 114, 121, 34, 44, 32, 34, 121,
    97, 114, 110, 34, 44, 32, 34, 112, 110, 112, 109, 34, 44, 32, 34, 110, 112, 109, 34,
    10, 32, 32, 47, 47, 32, 98, 121, 32, 100, 101, 102, 97, 117, 108, 116, 32, 105, 116,
    32, 119, 105, 108, 108, 32, 116, 114, 121, 32, 116, 111, 32, 100, 101, 116, 101, 99,
    116, 32, 116, 104, 101, 32, 112, 97, 99, 107, 97, 103, 101, 32, 109, 97, 110, 97,
    103, 101, 114, 32, 98, 97, 115, 101, 100, 32, 111, 110, 32, 116, 104, 101, 32, 112,
    114, 101, 115, 101, 110, 99, 101, 32, 111, 102, 32, 97, 32, 108, 111, 99, 107, 102,
    105, 108, 101, 10, 32, 32, 34, 112, 97, 99, 107, 97, 103, 101, 77, 97, 110, 97, 103,
    101, 114, 34, 58, 32, 34, 98, 117, 110, 34, 44, 10, 125, 10
  >>

\* The same file without the comma after "bun".
ReadmeConfigNoComma ==
  <<
    123, 10, 32, 32, 47, 47, 32, 111, 110, 101, 32, 111, 102, 58, 32, 34, 98, 117, 110,
    34, 32, 34, 121, 97, 114, 110, 45, 98, 101, 114, 114, 121, 34, 44, 32, 34, 121, 97,
    114, 110, 34, 44, 32, 34, 112, 110, 112, 109, 34, 44, 32, 34, 110, 112, 109, 34, 10,
    32, 32, 47, 47, 32, 98, 121, 32, 100, 101, 102, 97, 117, 108, 116, 32, 105, 116, 32,
    119, 105, 108, 108, 32, 116, 114, 121, 32, 116, 111, 32, 100, 101, 116, 101, 99, 116,
    32, 116, 104, 101, 32, 112, 97, 99, 107, 97, 103, 101, 32, 109, 97, 110, 97, 103,
    101, 114, 32, 98, 97, 115, 101, 100, 32, 111, 110, 32, 116, 104, 101, 32, 112, 114,
    101, 115, 101, 110, 99, 101, 32, 111, 102, 32, 97, 32, 108, 111, 99, 107, 102, 105,
    108, 101, 10, 32, 32, 34, 112, 97, 99, 107, 97, 103, 101, 77, 97, 110, 97, 103, 101,
    114, 34, 58, 32, 34, 98, 117, 110, 34, 10, 125, 10
  >>

pkgA == <<CC.a>>

pkgB == <<CC.b>>

workspace1 == <<119, 49>>

workspace2 == <<119, 50>>

rootName == <<114, 111, 111, 116>>

pinned1 == <<49, 46, 48, 46, 48>>

pinned2 == <<50, 46, 48, 46, 48>>

caret1 == <<94, 49>>

\* 1.0.0  ^1  ~1  *  1.x  1.X  "1 - 2"  "1 || 2"  >1  <1  latest  canary  next
\* beta  alpha  rc  dev  workspace:^  workspace:~1  workspace:*  workspace:1
\* file:a  url:a  git:a  link:a  file:*  2.0.0  devel
Specifiers ==
  {<<49, 46, 48, 46, 48>>,
   <<94, 49>>,
   <<126, 49>>,
   <<42>>,
   <<49, 46, 120>>,
   <<49, 46, 88>>,
   <<49, 32, 45, 32, 50>>,
   <<49, 32, 124, 124, 32, 50>>,
   <<62, 49>>,
   <<60, 49>>,
   <<108, 97, 116, 101, 115, 116>>,
   <<99, 97, 110, 97, 114, 121>>,
   <<110, 101, 120, 116>>,
   <<98, 101, 116, 97>>,
   <<97, 108, 112, 104, 97>>,
   <<114, 99>>,
   <<100, 101, 118>>,
   <<119, 111, 114, 107, 115, 112, 97, 99, 101, 58, 94>>,
   <<119, 111, 114, 107, 115, 112, 97, 99, 101, 58, 126, 49>>,
   <<119, 111, 114, 107, 115, 112, 97, 99, 101, 58, 42>>,
   <<119, 111, 114, 107, 115, 112, 97, 99, 101, 58, 49>>,
   <<102, 105, 108, 101, 58, 97>>,
   <<117, 114, 108, 58, 97>>,
   <<103, 105, 116, 58, 97>>,
   <<108, 105, 110, 107, 58, 97>>,
   <<102, 105, 108, 101, 58, 42>>,
   <<50, 46, 48, 46, 48>>,
   <<100, 101, 118, 101, 108>>}

\* The contents of a package.json; a group of dependencies that is undefined is
\* left out.
PackageWith(object, key, group) ==
  IF group = Undefined THEN object ELSE Set(object, key, group)

Package(name, dependencies, devDependencies, peerDependencies) ==
  PackageWith(
    PackageWith(
      PackageWith(Obj(<<JS.name>>, <<Str(name)>>), JS.dependencies, dependencies),
      JS.devDependencies, devDependencies),
    JS.peerDependencies, peerDependencies)

\* { [packageName]: version }
OneDependency(packageName, version) == Obj(<<packageName>>, <<Str(version)>>)

\* { [packageName]: { [version]: [workspaceName] } }
OneOverride(packageName, version, workspaceName) ==
  Obj(<<packageName>>, <<Obj(<<version>>, <<Arr(<<Str(workspaceName)>>)>>)>>)

\* The configurations written to the config file, besides the README's:
\* {}, each package manager the README names, pin alone, pin under bun, pin under
\* bun with an override of a@^1 for every workspace or for w1.
Configs ==
  {EmptyObject}
  \cup {Obj(<<JS.packageManager>>, <<Str(p)>>) :
          p \in {JS.bun, JS.yarnBerry, JS.yarn, JS.pnpm, JS.npm}}
  \cup {Obj(<<JS.versionStrategy>>, <<Str(JS.pin)>>),
        Obj(<<JS.packageManager, JS.versionStrategy>>, <<Str(JS.bun), Str(JS.pin)>>)}
  \cup {Obj(<<JS.packageManager, JS.versionStrategy, JS.overrides>>,
            <<Str(JS.bun), Str(JS.pin), OneOverride(pkgA, caret1, w)>>) :
          w \in {JS.star, workspace1}}

ConfigFiles ==
  {NoFile, File(ReadmeConfig), File(ReadmeConfigNoComma)}
  \cup {File(Serialize(c)) : c \in Configs}

\* The lockfiles found in the root directory.
LockfileSets ==
  {{}, {"bun.lock"}, {"bun.lockb"}, {"package-lock.json"}, {"pnpm-lock.yaml"},
   {"yarn.lock"}, {"yarn.lock", ".yarnrc.yml"}}

\* The package.json files of a workspace named name.
PackagesNamed(name) ==
  {Package(name, Undefined, Undefined, Undefined)}
  \cup {Package(name, OneDependency(pkgA, v), Undefined, Undefined) :
          v \in {pinned1, pinned2, caret1}}
  \cup {Package(name, Undefined, OneDependency(pkgA, caret1),
                OneDependency(pkgB, JS.star))}

\* The workspaces the package manager lists: none, w1, or w1 and w2.
WorkspaceLists ==
  {<<>>}
  \cup {<<p>> : p \in PackagesNamed(workspace1)}
  \cup {<<p, q>> : p \in PackagesNamed(workspace1), q \in PackagesNamed(workspace2)}

RootDirectories ==
  [configJsonc : ConfigFiles,
   configJson : {NoFile, File(Serialize(Obj(<<JS.packageManager>>, <<Str(JS.npm)>>)))},
   lockfiles : LockfileSets,
   package : {Package(rootName, Undefined, Undefined, Undefined),
              Package(rootName, OneDependency(pkgA, caret1), Undefined, Undefined)},
   workspaces : WorkspaceLists]

\* The state of one call of start({ rootDirectory, logger, args: ["check"] }), or
\* of one call of getUnpinnedDependencies: where it is (pc), its locals, what the
\* logger got and how the promise ended.
NewStart(rootDirectory) ==
  [fn |-> "start", pc |-> "start", rootDirectory |-> rootDirectory,
   initialConfig |-> Undefined, workspaceDependencies |-> <<>>,
   overrides |-> Undefined, logs |-> <<>>, pendingStatusCode |-> 0, status |-> "ok",
   outcome |-> "pending", statusCode |-> 0, unpinned |-> Undefined]

\* No call of the command line tool.
NoCli == [fn |-> "none", pc |-> "done"]

\* ---------------------------------------------------------------- state

VARIABLES
  text, options,            \* the arguments of parse
  doc,                      \* how the text was made: the value serialized, the comments put in
  scanner, jsonPath,        \* visit's _scanner and _jsonPath
  stack, ret,               \* the call stack below visit and the last return value
  events,                   \* the visitor callbacks invoked so far
  currentProperty, currentParent, previousParents, heap, errors,   \* parse's closure
  snapshots,                \* the arrays the path accessors have returned
  status, exception, result,
  cli                       \* the call of the command line tool, if any

vars ==
  <<text, options, doc, scanner, jsonPath, stack, ret, events, currentProperty,
    currentParent, previousParents, heap, errors, snapshots, status, exception,
    result, cli>>

\* The running call as one record.
M ==
  [text |-> text, options |-> options, scanner |-> scanner, jsonPath |-> jsonPath,
   stack |-> stack, ret |-> ret, events |-> events,
   currentProperty |-> currentProperty, currentParent |-> currentParent,
   previousParents |-> previousParents, heap |-> heap, errors |-> errors,
   snapshots |-> snapshots, status |-> status, exception |-> exception, result |-> result]

Ran(m) ==
  /\ text' = m.text /\ options' = m.options /\ scanner' = m.scanner
  /\ jsonPath' = m.jsonPath /\ stack' = m.stack /\ ret' = m.ret
  /\ events' = m.events /\ currentProperty' = m.currentProperty
  /\ currentParent' = m.currentParent /\ previousParents' = m.previousParents
  /\ heap' = m.heap /\ errors' = m.errors /\ snapshots' = m.snapshots
  /\ status' = m.status
  /\ exception' = m.exception /\ result' = m.result
  /\ UNCHANGED doc

\* A step of parse called on its own.
Becomes(m) == Ran(m) /\ cli' = cli

CalledFrom(m, c) ==
  /\ text = m.text /\ options = m.options /\ scanner = m.scanner
  /\ jsonPath = m.jsonPath
  /\ stack = m.stack /\ ret = m.ret /\ events = m.events
  /\ currentProperty = m.currentProperty /\ currentParent = m.currentParent
  /\ previousParents = m.previousParents /\ heap = m.heap /\ errors = m.errors
  /\ snapshots = m.snapshots
  /\ status = m.status /\ exception = m.exception /\ result = m.result
  /\ cli = c

Called(t, o) == CalledFrom(NewMachine(t, o), NoCli)

NoValue == [t |-> "none"]

\* How the text of a call was made.
Made(value, plain, comments, trailing) ==
  doc = [value |-> value, plain |-> plain, comments |-> comments,
         trailing |-> trailing]

\* parse called under any options: on any short text, on a document with a comma
\* before its closing token, or on one of the erroneous examples (of the grammar
\* or of a string).
Init ==
  \/ \E t \in Texts \cup ErrorExamples \cup StringErrorExamples
                 \cup MalformedPropertyExamples \cup MismatchedCloserExamples
                 \cup ExtraCommaExamples, o \in Options :
       Called(t, o) /\ Made(NoValue, t, 0, FALSE)
  \/ \E v \in TrailingCommaDocs, o \in Options :
       Called(WithTrailingComma(v), o) /\ Made(v, Serialize(v), 0, TRUE)
  \/ \E e \in TrailingCommaExamples, o \in Options :
       Called(e.text, o) /\ Made(e.value, Serialize(e.value), 0, TRUE)

\* parse called under any options on JSON.stringify(v), with or without comments
\* between its tokens.
DocInit ==
  \E v \in Documents, o \in Options :
    \E plan \in Plans(Tokens(v)) :
      Called(Render(Tokens(v), plan, 0), o) /\ Made(v, Serialize(v), Len(plan), FALSE)

\* ---------------------------------------------------------------- actions

VisitStart == At(M, "visit", "start") /\ Becomes(visitStart(M))

VisitAfterValue == At(M, "visit", "afterValue") /\ Becomes(visitAfterValue(M))

ParseArrayBegin ==
  AtValue(M, {SyntaxKind.OpenBracketToken}) /\ Becomes(parseArrayBegin(M))

ParseObjectBegin ==
  AtValue(M, {SyntaxKind.OpenBraceToken}) /\ Becomes(parseObjectBegin(M))

ParseStringValue ==
  AtValue(M, {SyntaxKind.StringLiteral}) /\ Becomes(parseStringValue(M))

ParseLiteral == AtValue(M, AllKinds \ ValueStarters) /\ Becomes(parseLiteral(M))

ParseArrayLoop == At(M, "parseArray", "loop") /\ Becomes(parseArrayLoop(M))

ParseArrayElementDone ==
  At(M, "parseArray", "afterValue") /\ Becomes(parseArrayElementDone(M))

ParseArrayEnd == At(M, "parseArray", "end") /\ Becomes(parseArrayEnd(M))

ParseObjectLoop == At(M, "parseObject", "loop") /\ Becomes(parseObjectLoop(M))

ParseObjectPropertyDone ==
  At(M, "parseObject", "afterProperty") /\ Becomes(parseObjectPropertyDone(M))

ParseObjectEnd == At(M, "parseObject", "end") /\ Becomes(parseObjectEnd(M))

ParseProperty == At(M, "parseProperty", "start") /\ Becomes(parseProperty(M))

ParsePropertyEnd == At(M, "parseProperty", "afterValue") /\ Becomes(parsePropertyEnd(M))

Next ==
  \/ VisitStart
  \/ VisitAfterValue
  \/ ParseArrayBegin
  \/ ParseObjectBegin
  \/ ParseStringValue
  \/ ParseLiteral
  \/ ParseArrayLoop
  \/ ParseArrayElementDone
  \/ ParseArrayEnd
  \/ ParseObjectLoop
  \/ ParseObjectPropertyDone
  \/ ParseObjectEnd
  \/ ParseProperty
  \/ ParsePropertyEnd

Spec == Init /\ [][Next]_vars

DocSpec == DocInit /\ [][Next]_vars

\* ---------------------------------------------------------------- the scanner alone

\* The most calls of setPosition on one scanner.
MaxResets == 1

\* A scanner created on any short text, with ignoreTrivia or without.  doc tells
\* how the scanner was made and moved: from is the position of the last
\* setPosition (0 for a new scanner), and events holds the tokens scan has
\* returned since then.
ScanInit ==
  \E t \in ScanTexts, b \in BOOLEAN :
    /\ Called(t, DefaultOptions)
    /\ doc = [ignoreTrivia |-> b, from |-> 0, resets |-> 0]

\* scan(), until it has returned EOF.
ScannerScan ==
  /\ scanner.token # SyntaxKind.EOF
  /\ scanner' = scanWith(text, scanner, doc.ignoreTrivia)
  /\ events' = Append(events, TokenOf(scanWith(text, scanner, doc.ignoreTrivia)))
  /\ UNCHANGED <<text, options, doc, jsonPath, stack, ret, currentProperty,
                 currentParent, previousParents, heap, errors, snapshots, status,
                 exception, result, cli>>

\* setPosition(p).
SetPosition ==
  /\ doc.resets < MaxResets
  /\ \E p \in 0..Len(text) :
       /\ scanner' = setPosition(scanner, p)
       /\ doc' = [doc EXCEPT !.from = p, !.resets = @ + 1]
  /\ events' = <<>>
  /\ UNCHANGED <<text, options, jsonPath, stack, ret, currentProperty,
                 currentParent, previousParents, heap, errors, snapshots, status,
                 exception, result, cli>>

ScanNext == ScannerScan

ScanSpec == ScanInit /\ [][ScanNext]_vars

RescanNext == ScannerScan \/ SetPosition

RescanSpec == ScanInit /\ [][RescanNext]_vars

\* ---------------------------------------------------------------- a visitor that keeps paths

\* The most arrays the visitor changes in one run.
MaxTouched == 1

\* The marker a visitor pushes onto an array it got.
Marker == [k |-> "marker"]

\* array.push(marker) or array.pop() by the visitor.
visitorChange(elems, op) ==
  IF op = "push" THEN Append(elems, Marker) ELSE SubSeq(elems, 1, Len(elems) - 1)

\* The visitor changes the i-th array it got from a path accessor.
visitorMutates(m, i, op) ==
  IF m.snapshots[i].copy
  THEN [m EXCEPT !.snapshots[i].elems = visitorChange(@, op),
                 !.snapshots[i].touched = TRUE]
  ELSE [m EXCEPT !.jsonPath = visitorChange(@, op),
                 !.snapshots[i].touched = TRUE]

\* The elements of the i-th array the visitor got, as they are now.
ElementsNow(m, i) ==
  IF m.snapshots[i].copy THEN m.snapshots[i].elems ELSE m.jsonPath

\* parse called under the default options on JSON.stringify(v).
SnapshotInit ==
  \E v \in Documents :
    Called(Serialize(v), DefaultOptions) /\ Made(v, Serialize(v), 0, FALSE)

VisitorMutatesPath ==
  /\ Cardinality({j \in 1..Len(snapshots) : snapshots[j].touched}) < MaxTouched
  /\ \E i \in 1..Len(snapshots), op \in {"push", "pop"} :
       ~snapshots[i].touched /\ Becomes(visitorMutates(M, i, op))

SnapshotNext == Next \/ VisitorMutatesPath

SnapshotSpec == SnapshotInit /\ [][SnapshotNext]_vars

\* ---------------------------------------------------------------- start

logged(c, level, lines) == [c EXCEPT !.logs = Append(@, [level |-> level, lines |-> lines])]

resolved(c, statusCode) ==
  [c EXCEPT !.outcome = "resolved", !.statusCode = statusCode, !.pc = "done"]

\* An exception leaves the async function: the promise is rejected.
rejected(c, what) == [c EXCEPT !.outcome = what, !.pc = "done"]

\* let initialConfig = loadConfig({ rootDirectory })
startLoadConfig(c) ==
  [c EXCEPT !.initialConfig = loadConfig(c.rootDirectory), !.pc = "loaded"]

\* if (!initialConfig.versionStrategy) initialConfig.versionStrategy = "loose"
defaultVersionStrategy(c) ==
  IF Truthy(Get(c.initialConfig, JS.versionStrategy)) THEN c
  ELSE [c EXCEPT !.initialConfig = Set(@, JS.versionStrategy, Str(JS.loose))]

\* The package manager: the configured one, else the inferred one, else the
\* error and statusCode 1.
startPackageManager(c) ==
  IF Truthy(Get(c.initialConfig, JS.packageManager))
  THEN [defaultVersionStrategy(c) EXCEPT !.pc = "configured"]
  ELSE IF inferPackageManager(c.rootDirectory).t # "str"
  THEN resolved(logged(c, "error",
                       <<"Could not infer package manager! Please specify one in the config file.">>),
                1)
  ELSE [defaultVersionStrategy(
          [c EXCEPT !.initialConfig =
                      Set(@, JS.packageManager, inferPackageManager(c.rootDirectory))])
        EXCEPT !.pc = "configured"]

\* getWorkspaces, getDependencies of the root and workspaces.map(getDependencies):
\* map on undefined raises TypeError.
startWorkspaces(c) ==
  IF ~getWorkspaces(c.rootDirectory, Get(c.initialConfig, JS.packageManager)).found
  THEN rejected(c, "TypeError")
  ELSE [c EXCEPT !.workspaceDependencies =
                   getWorkspaces(c.rootDirectory,
                                 Get(c.initialConfig, JS.packageManager)).packages,
                 !.overrides = Get(c.initialConfig, JS.overrides),
                 !.pc = "workspaces"]

FailureHeader == <<"You shall not pass!", "One Version Rule Failure">>

\* The check for duplicate dependencies.
startDuplicates(c) ==
  IF Len(getDuplicateDependencies(c.workspaceDependencies, c.overrides)) > 0
  THEN [logged(c, "log",
               FailureHeader
               \o <<"", "Found multiple versions of the following dependencies:", "",
                    "prettify(duplicateDependencies)">>)
        EXCEPT !.status = "failed", !.pendingStatusCode = 1, !.pc = "duplicates"]
  ELSE [c EXCEPT !.pc = "duplicates"]

\* { ...monorepoUnpinnedDependencies, ...rootUnpinnedDependencies }
unpinnedDependenciesOf(c) ==
  SpreadBoth(getUnpinnedDependencies(c.workspaceDependencies, c.overrides),
             getUnpinnedDependencies(<<c.rootDirectory.package>>, c.overrides))

\* The check of versionStrategy "pin".
startUnpinned(c) ==
  IF Get(c.initialConfig, JS.versionStrategy) # Str(JS.pin)
  THEN [c EXCEPT !.pc = "unpinned"]
  ELSE IF Len(unpinnedDependenciesOf(c).keys) > 0
  THEN [logged(c, "log",
               (IF c.pendingStatusCode = 0 THEN FailureHeader ELSE <<"", "">>)
               \o <<"Found unpinned dependencies (with versionStrategy: 'pin'):", "",
                    "unpinnedDependencies">>)
        EXCEPT !.status = "failed", !.pendingStatusCode = 1, !.pc = "unpinned",
               !.unpinned = unpinnedDependenciesOf(c)]
  ELSE [c EXCEPT !.pc = "unpinned", !.unpinned = unpinnedDependenciesOf(c)]

SuccessMessage ==
  <<"My preciousss", "One Version Rule Success - found no version conflicts!">>

\* The success message and the result.
startReport(c) ==
  resolved(IF c.status = "ok" THEN logged(c, "log", SuccessMessage) ELSE c,
           c.pendingStatusCode)

\* The machine of the parse call loadConfig makes (none when there is no file).
configMachine(rootDirectory) ==
  NewMachine(configFile(rootDirectory).content, DefaultOptions)

\* start is called with the command check in any of the root directories.
CheckInit ==
  \E d \in RootDirectories :
    /\ CalledFrom(configMachine(d), NewStart(d))
    /\ Made(NoValue, configFile(d).content, 0, FALSE)

StartLoadConfig ==
  /\ cli.fn = "start" /\ cli.pc = "start"
  /\ cli' = startLoadConfig(cli)
  /\ IF configFile(cli.rootDirectory).exists THEN Ran(Run(M)) ELSE Ran(M)

StartPackageManager ==
  cli.fn = "start" /\ cli.pc = "loaded" /\ cli' = startPackageManager(cli) /\ Ran(M)

StartWorkspaces ==
  cli.fn = "start" /\ cli.pc = "configured" /\ cli' = startWorkspaces(cli) /\ Ran(M)

StartDuplicates ==
  cli.fn = "start" /\ cli.pc = "workspaces" /\ cli' = startDuplicates(cli) /\ Ran(M)

StartUnpinned ==
  cli.fn = "start" /\ cli.pc = "duplicates" /\ cli' = startUnpinned(cli) /\ Ran(M)

StartReport ==
  cli.fn = "start" /\ cli.pc = "unpinned" /\ cli' = startReport(cli) /\ Ran(M)

CheckNext ==
  \/ StartLoadConfig
  \/ StartPackageManager
  \/ StartWorkspaces
  \/ StartDuplicates
  \/ StartUnpinned
  \/ StartReport

CheckSpec == CheckInit /\ [][CheckNext]_vars

\* ---------------------------------------------------------------- getUnpinnedDependencies alone

\* A call getUnpinnedDependencies({ workspaceDependencies, overrides }).
NewUnpinnedCall(workspaceDependencies, overrides) ==
  [fn |-> "getUnpinnedDependencies", pc |-> "call",
   workspaceDependencies |-> workspaceDependencies, overrides |-> overrides,
   unpinned |-> Undefined]

\* What comes after workspace w1 in workspaceDependencies.
OtherWorkspaces ==
  {<<>>,
   <<Package(workspace2, OneDependency(pkgB, caret1), Undefined, Undefined)>>,
   <<Package(workspace2, Undefined, Undefined, OneDependency(pkgA, JS.star))>>}

\* undefined, or an override of a@v1 or b@v2 for w1, for w2 or for "*".
OverridesOf(v1, v2) ==
  {Undefined}
  \cup {OneOverride(pkgA, v1, w) : w \in {workspace1, workspace2, JS.star}}
  \cup {OneOverride(pkgB, v2, JS.star)}

\* Workspace w1 depends on a@v1 and has a or b at v2 as a devDependency and b@* as
\* a peerDependency, for any two specifiers v1 and v2.
UnpinnedInit ==
  \E v1 \in Specifiers, v2 \in Specifiers, x \in {pkgA, pkgB}, rest \in OtherWorkspaces :
    \E o \in OverridesOf(v1, v2) :
      /\ CalledFrom(NewMachine(<<>>, DefaultOptions),
                    NewUnpinnedCall(
                      <<Package(workspace1, OneDependency(pkgA, v1),
                                OneDependency(x, v2), OneDependency(pkgB, JS.star))>>
                      \o rest, o))
      /\ Made(NoValue, <<>>, 0, FALSE)

GetUnpinnedDependencies ==
  /\ cli.fn = "getUnpinnedDependencies" /\ cli.pc = "call"
  /\ cli' = [cli EXCEPT !.pc = "done",
                        !.unpinned = getUnpinnedDependencies(cli.workspaceDependencies,
                                                             cli.overrides)]
  /\ Ran(M)

UnpinnedNext == GetUnpinnedDependencies

UnpinnedSpec == UnpinnedInit /\ [][UnpinnedNext]_vars

\* ---------------------------------------------------------------- the JSON grammar

\* The grammar of RFC 8259 with // and /* */ comments allowed wherever white
\* space is, read off the grammar and not off the parser.  Positions are
\* 1-based; a recognizer returns the position after what it recognized, or 0.
UnitAt(t, i) == IF i >= 1 /\ i <= Len(t) THEN t[i] ELSE NaN

JWhiteSpace == {CC.space, CC.tab, CC.lineFeed, CC.carriageReturn}

RECURSIVE JLineEnd(_, _)
JLineEnd(t, i) ==
  IF i > Len(t) \/ t[i] \in {CC.lineFeed, CC.carriageReturn} THEN i
  ELSE JLineEnd(t, i + 1)

RECURSIVE JBlockEnd(_, _)
JBlockEnd(t, i) ==
  IF i + 1 > Len(t) THEN 0
  ELSE IF t[i] = CC.asterisk /\ t[i + 1] = CC.slash THEN i + 2
  ELSE JBlockEnd(t, i + 1)

RECURSIVE JSkip(_, _)
\* The position of the first unit at or after i that is neither white space
\* nor part of a comment.
JSkip(t, i) ==
  IF UnitAt(t, i) \in JWhiteSpace THEN JSkip(t, i + 1)
  ELSE IF UnitAt(t, i) = CC.slash /\ UnitAt(t, i + 1) = CC.slash
  THEN JSkip(t, JLineEnd(t, i + 2))
  ELSE IF UnitAt(t, i) = CC.slash /\ UnitAt(t, i + 1) = CC.asterisk
          /\ JBlockEnd(t, i + 2) # 0
  THEN JSkip(t, JBlockEnd(t, i + 2))
  ELSE i

JHex(c) ==
  \/ c >= CC.d0 /\ c <= CC.d9
  \/ c >= CC.a /\ c <= CC.f
  \/ c >= CC.A /\ c <= CC.F

RECURSIVE JChars(_, _)
\* The characters of a string from position i to its closing quote.
JChars(t, i) ==
  IF UnitAt(t, i) = CC.doubleQuote THEN i + 1
  ELSE IF UnitAt(t, i) < 32 THEN 0
  ELSE IF UnitAt(t, i) # CC.backslash THEN JChars(t, i + 1)
  ELSE IF UnitAt(t, i + 1) \in {CC.doubleQuote, CC.backslash, CC.slash, CC.b,
                                CC.f, CC.n, CC.r, CC.t}
  THEN JChars(t, i + 2)
  ELSE IF UnitAt(t, i + 1) = CC.u /\ \A k \in 2..5 : JHex(UnitAt(t, i + k))
  THEN JChars(t, i + 6)
  ELSE 0

JIsDigit(c) == c >= CC.d0 /\ c <= CC.d9

RECURSIVE JDigits(_, _)
\* One or more digits.
JDigits(t, i) ==
  IF ~JIsDigit(UnitAt(t, i)) THEN 0
  ELSE IF JIsDigit(UnitAt(t, i + 1)) THEN JDigits(t, i + 1)
  ELSE i + 1

JExp(t, i) ==
  IF i = 0 \/ UnitAt(t, i) \notin {CC.e, CC.E} THEN i
  ELSE IF UnitAt(t, i + 1) \in {CC.plus, CC.minus} THEN JDigits(t, i + 2)
  ELSE JDigits(t, i + 1)

JFrac(t, i) ==
  IF i = 0 \/ UnitAt(t, i) # CC.dot THEN i ELSE JDigits(t, i + 1)

JInt(t, i) == IF UnitAt(t, i) = CC.d0 THEN i + 1 ELSE JDigits(t, i)

JNumber(t, i) ==
  JExp(t, JFrac(t, JInt(t, IF UnitAt(t, i) = CC.minus THEN i + 1 ELSE i)))

JWord(t, i, w) ==
  IF i + Len(w) - 1 <= Len(t) /\ SubSeq(t, i, i + Len(w) - 1) = w
  THEN i + Len(w) ELSE 0

RECURSIVE JValue(_, _)
RECURSIVE JElements(_, _)
RECURSIVE JMembers(_, _)

\* After an element that ends before position i: "," element ... "]".
JElementsRest(t, i) ==
  IF i = 0 THEN 0
  ELSE IF UnitAt(t, JSkip(t, i)) = CC.closeBracket THEN JSkip(t, i) + 1
  ELSE IF UnitAt(t, JSkip(t, i)) = CC.comma
  THEN JElements(t, JSkip(t, JSkip(t, i) + 1))
  ELSE 0

JElements(t, i) == JElementsRest(t, JValue(t, i))

JMembersRest(t, i) ==
  IF i = 0 THEN 0
  ELSE IF UnitAt(t, JSkip(t, i)) = CC.closeBrace THEN JSkip(t, i) + 1
  ELSE IF UnitAt(t, JSkip(t, i)) = CC.comma
  THEN JMembers(t, JSkip(t, JSkip(t, i) + 1))
  ELSE 0

\* After a member's name that ends before position i: ":" value.
JMemberValue(t, i) ==
  IF i = 0 \/ UnitAt(t, JSkip(t, i)) # CC.colon THEN 0
  ELSE JValue(t, JSkip(t, JSkip(t, i) + 1))

JMembers(t, i) ==
  IF UnitAt(t, i) # CC.doubleQuote THEN 0
  ELSE JMembersRest(t, JMemberValue(t, JChars(t, i + 1)))

JValue(t, i) ==
  IF UnitAt(t, i) = CC.openBracket
  THEN IF UnitAt(t, JSkip(t, i + 1)) = CC.closeBracket THEN JSkip(t, i + 1) + 1
       ELSE JElements(t, JSkip(t, i + 1))
  ELSE IF UnitAt(t, i) = CC.openBrace
  THEN IF UnitAt(t, JSkip(t, i + 1)) = CC.closeBrace THEN JSkip(t, i + 1) + 1
       ELSE JMembers(t, JSkip(t, i + 1))
  ELSE IF UnitAt(t, i) = CC.doubleQuote THEN JChars(t, i + 1)
  ELSE IF UnitAt(t, i) = CC.t THEN JWord(t, i, kwTrue)
  ELSE IF UnitAt(t, i) = CC.f THEN JWord(t, i, kwFalse)
  ELSE IF UnitAt(t, i) = CC.n THEN JWord(t, i, kwNull)
  ELSE JNumber(t, i)

\* t is one JSON value with white space and comments around and inside it.
IsJSONWithComments(t) ==
  /\ JValue(t, JSkip(t, 1)) # 0
  /\ JSkip(t, JValue(t, JSkip(t, 1))) = Len(t) + 1

\* t holds no token: white space, line breaks and comments only.
NoSignificantToken(t) == JSkip(t, 1) = Len(t) + 1

OnlyWhiteSpace(t) == \A i \in 1..Len(t) : t[i] \in JWhiteSpace

\* ---------------------------------------------------------------- properties

Ended == status # "running"

Returned == status = "returned"

\* The value parse has returned, as a tree.
Tree == Materialize(heap, result)

\* C1: parse returns normally and never raises an exception, for every text and
\* every combination of the options.
C1_NeverThrows == status # "thrown"

\* C2: once parse(text, errors) has ended under the default options, errors is
\* non-empty whenever text is not a document of the JSON grammar (comments
\* allowed).
C2_ErrorsWhenNotJSON ==
  (Ended /\ options = DefaultOptions /\ ~IsJSONWithComments(text)) => errors # <<>>

RECURSIVE OpenAfter(_, _, _)
\* The containers left open by the events from the i-th on, innermost last, open
\* being those open before; <<"mismatch">> when an end callback closes anything
\* but the innermost open container.
OpenAfter(evs, i, open) ==
  IF i > Len(evs) THEN open
  ELSE IF evs[i].cb = "onObjectBegin" THEN OpenAfter(evs, i + 1, Append(open, "object"))
  ELSE IF evs[i].cb = "onArrayBegin" THEN OpenAfter(evs, i + 1, Append(open, "array"))
  ELSE IF evs[i].cb \in {"onObjectEnd", "onArrayEnd"}
  THEN IF open # <<>> /\ open[Len(open)] =
                           (IF evs[i].cb = "onObjectEnd" THEN "object" ELSE "array")
       THEN OpenAfter(evs, i + 1, SubSeq(open, 1, Len(open) - 1))
       ELSE <<"mismatch">>
  ELSE OpenAfter(evs, i + 1, open)

\* C3: the begin and end callbacks of a run are properly nested, and when the
\* run has ended every onObjectBegin and onArrayBegin has had its matching end
\* callback, also when the input has a syntax error inside a container.
C3_BeginEndBalanced ==
  /\ OpenAfter(events, 1, <<>>) # <<"mismatch">>
  /\ Ended => OpenAfter(events, 1, <<>>) = <<>>

\* C4: every call ends by returning, with the scanner at EOF.
C4_ReachesEOFAndReturns ==
  Ended => (Returned /\ scanner.token = SyntaxKind.EOF)

\* C5: parse(JSON.stringify(v)) returns a value deep-equal to v and leaves the
\* error list empty, for every value v made of objects, arrays, strings,
\* numbers, booleans and null.
C5_RoundTrip ==
  (Ended /\ doc.comments = 0 /\ options = DefaultOptions)
    => (Returned /\ errors = <<>> /\ DeepEqual(Tree, doc.value))

\* parse has returned the tree that the call p has returned.
SameTreeAs(p) == p.status = "returned" /\ Tree = Materialize(p.heap, p.result)

\* C6: with disallowComments false, a valid JSON document with block and line
\* comments put between its tokens parses to the same tree as the document
\* without the comments, and the error list stays empty.
C6_CommentsIgnored ==
  (Ended /\ doc.comments > 0 /\ ~options.disallowComments)
    => (Returned /\ errors = <<>> /\ SameTreeAs(parse(doc.plain, options)))

\* A document with a comment has been parsed to the tree of {"a":[1,{"b":2}]}.
C6_Witness ==
  /\ Returned /\ doc.comments > 0 /\ ~options.disallowComments
  /\ doc.value = PathExample /\ Tree = PathExample

\* C7: for a container whose last element is followed by a comma right before
\* the closing token: with allowTrailingComma parse reports no error, without
\* it parse reports a value-expected error at the closing token, and in both
\* cases returns the tree with the elements before the comma.
C7_TrailingCommaGating ==
  (Ended /\ doc.trailing) =>
    /\ Returned /\ DeepEqual(Tree, doc.value)
    /\ options.allowTrailingComma => errors = <<>>
    /\ ~options.allowTrailingComma =>
         \E i \in 1..Len(errors) :
           errors[i].error = "ValueExpected" /\ errors[i].offset = Len(text) - 1

\* C8: for {"a": } parse reports a value-expected error whose offset and length
\* are those of the '}' token.
C8_ErrorAtCloseBrace ==
  (Ended /\ text = ValueMissingExample) =>
    \E i \in 1..Len(errors) :
      /\ errors[i].error = "ValueExpected"
      /\ errors[i].offset = firstOf(text, {CC.closeBrace}) - 1
      /\ errors[i].length = 1

RECURSIVE Leaves(_, _)
RECURSIVE LeavesFrom(_, _, _)
\* The literals of members i.. of the container v that is at path, in document
\* order, each with the keys and 0-based indices that lead to it from the root.
LeavesFrom(v, path, i) ==
  IF i > Len(v.vals) THEN <<>>
  ELSE Leaves(v.vals[i],
              Append(path, IF v.t = "arr" THEN Idx(i - 1) ELSE Key(v.keys[i])))
       \o LeavesFrom(v, path, i + 1)

Leaves(v, path) ==
  IF v.t \in {"arr", "obj"} THEN LeavesFrom(v, path, 1)
  ELSE <<[path |-> path, value |-> v]>>

\* The onLiteralValue callbacks so far.
LiteralEvents == SelectSeq(events, LAMBDA e : e.cb = "onLiteralValue")

\* The literal events are the first leaves of the document v: each with its
\* value and, from the path accessor, its path.
DeliversLeaves(lits, leaves) ==
  /\ Len(lits) <= Len(leaves)
  /\ \A i \in 1..Len(lits) :
       /\ lits[i].hasPath
       /\ lits[i].path = leaves[i].path
       /\ lits[i].arg = leaves[i].value

\* C9: the path accessor passed to onLiteralValue returns the keys and 0-based
\* array indices that lead from the root to the literal delivered, for the
\* literals of a document in their order.
C9_PathToLiteral ==
  /\ DeliversLeaves(LiteralEvents, Leaves(doc.value, <<>>))
  /\ Returned => Len(LiteralEvents) = Len(Leaves(doc.value, <<>>))

\* {"a":[1,{"b":2}]} has been visited: ["a",0] for 1, then ["a",1,"b"] for 2.
C9_Witness ==
  /\ Returned /\ doc.value = PathExample
  /\ Len(LiteralEvents) = 2
  /\ LiteralEvents[1].path = <<Key(keyA), Idx(0)>>
  /\ LiteralEvents[1].arg = Num(1, 0)
  /\ LiteralEvents[2].path = <<Key(keyA), Idx(1), Key(keyB)>>
  /\ LiteralEvents[2].arg = Num(2, 0)

\* C10: for a text with no significant token (empty, or white space, line breaks
\* and permitted comments only) parse returns undefined; without
\* allowEmptyContent it reports exactly a value-expected error, with it no error.
C10_EmptyContent ==
  (Ended /\ NoSignificantToken(text)
         /\ (OnlyWhiteSpace(text) \/ ~options.disallowComments)) =>
    /\ Returned /\ result = Undefined
    /\ options.allowEmptyContent => errors = <<>>
    /\ ~options.allowEmptyContent =>
         (Len(errors) = 1 /\ errors[1].error = "ValueExpected")

RECURSIVE TokensFrom(_, _, _)
\* The tokens scan returns from the scanner state s on, EOF included.
TokensFrom(t, s, ignoreTrivia) ==
  IF s.token = SyntaxKind.EOF THEN <<>>
  ELSE <<TokenOf(scanWith(t, s, ignoreTrivia))>>
       \o TokensFrom(t, scanWith(t, s, ignoreTrivia), ignoreTrivia)

\* The tokens of a scanner just created on t.
FreshTokens(t, ignoreTrivia) == TokensFrom(t, NewScanner, ignoreTrivia)

\* C11: after setPosition(0), whatever was scanned before, scan returns the
\* tokens a new scanner on the same text returns, equal in kind, value, offset,
\* length, start line, start column and scan error.
C11_RescanSameTokens ==
  (doc.resets > 0 /\ doc.from = 0) =>
    \A i \in 1..Len(events) : events[i] = FreshTokens(text, doc.ignoreTrivia)[i]

\* The position after the first top-level value of t (0 if t has none), and the
\* position of the first unit after it that is neither white space nor comment.
FirstValueEnd(t) == JValue(t, JSkip(t, 1))

AfterFirstValue(t) == JSkip(t, FirstValueEnd(t))

\* t is a complete value followed by a further token of the JSON grammar.
HasExtraContent(t) ==
  /\ FirstValueEnd(t) # 0
  /\ UnitAt(t, AfterFirstValue(t)) \in
       {CC.openBrace, CC.closeBrace, CC.openBracket, CC.closeBracket, CC.comma,
        CC.colon, CC.doubleQuote} \cup (CC.d0..CC.d9)

\* C12: exactly one value is accepted at the top level: when a complete first
\* value is followed by a further significant token, parse reports an
\* end-of-file-expected error at that token and returns the first value only;
\* the root array never holds more than one element.
C12_SingleTopLevelValue ==
  /\ Len(heap[1].vals) <= 1
  /\ (Ended /\ ~options.disallowComments /\ HasExtraContent(text)) =>
       /\ Returned
       /\ \E i \in 1..Len(errors) :
            /\ errors[i].error = "EndOfFileExpected"
            /\ errors[i].offset = AfterFirstValue(text) - 1
       /\ SameTreeAs(parse(SubSeq(text, 1, FirstValueEnd(text) - 1), options))

\* The comment tokens of t, as a new scanner returns them.
CommentTokens(t) ==
  SelectSeq(FreshTokens(t, FALSE),
            LAMBDA tk : tk.kind \in {SyntaxKind.LineCommentTrivia,
                                     SyntaxKind.BlockCommentTrivia})

InvalidCommentErrors == SelectSeq(errors, LAMBDA e : e.error = "InvalidCommentToken")

\* C13: with disallowComments true every comment token met produces an
\* invalid-comment-token error with the comment's offset and length, onComment
\* is never called, and parsing goes on after the comment, so that the tree
\* returned equals the one returned with comments allowed.
C13_CommentsDisallowed ==
  options.disallowComments =>
    /\ \A i \in 1..Len(events) : events[i].cb # "onComment"
    /\ (Ended /\ doc.comments > 0) =>
         /\ Returned
         /\ Len(InvalidCommentErrors) = Len(CommentTokens(text))
         /\ \A i \in 1..Len(InvalidCommentErrors) :
              /\ InvalidCommentErrors[i].offset = CommentTokens(text)[i].offset
              /\ InvalidCommentErrors[i].length = CommentTokens(text)[i].length
         /\ SameTreeAs(parse(text, [options EXCEPT !.disallowComments = FALSE]))

\* The callbacks visit binds with toNoArgVisitWithPath and toOneArgVisitWithPath.
WithPathCallbacks ==
  {"onObjectBegin", "onObjectProperty", "onArrayBegin", "onLiteralValue"}

\* C14 as stated: every visitor callback visit invokes receives a path accessor.
C14_EveryCallbackHasPath == \A i \in 1..Len(events) : events[i].hasPath

\* C14, amended: onObjectBegin, onObjectProperty, onArrayBegin and
\* onLiteralValue receive a path accessor; onObjectEnd, onArrayEnd, onSeparator,
\* onComment and onError receive none.
C14_PathForBeginPropertyLiteral ==
  \A i \in 1..Len(events) : events[i].hasPath <=> events[i].cb \in WithPathCallbacks

\* {"a":[1,{"b":2}]} with a comment has been visited: callbacks of both kinds
\* were invoked.
C14_Witness ==
  /\ Returned /\ doc.value = PathExample /\ doc.comments > 0
  /\ \A cb \in {"onObjectBegin", "onObjectProperty", "onObjectEnd", "onArrayBegin",
                "onArrayEnd", "onLiteralValue", "onSeparator", "onComment"} :
       \E i \in 1..Len(events) : events[i].cb = cb

\* C15: the array a path accessor returned during a callback is a snapshot: no
\* later step of the parser changes it (while the visitor has not changed it, it
\* holds the path of that callback), and a visitor that changes an array it got
\* does not change the paths later callbacks see.
C15_PathSnapshot ==
  /\ \A i \in 1..Len(events) :
       (events[i].hasPath /\ ~snapshots[events[i].pathRef].touched)
         => ElementsNow(M, events[i].pathRef) = events[i].path
  /\ DeliversLeaves(LiteralEvents, Leaves(doc.value, <<>>))

\* {"a":[1,{"b":2}]} has been visited to its end, the visitor having changed one
\* of the arrays it got before the last literal was delivered.
C15_Witness ==
  /\ Returned /\ doc.value = PathExample
  /\ \E j \in 1..Len(snapshots) :
       /\ snapshots[j].touched
       /\ j < LiteralEvents[Len(LiteralEvents)].pathRef
  /\ \E i \in 1..Len(events) :
       /\ events[i].hasPath /\ ~snapshots[events[i].pathRef].touched
       /\ events[i].path # jsonPath

\* The four kinds of trivia.
TriviaKinds ==
  {SyntaxKind.Trivia, SyntaxKind.LineBreakTrivia, SyntaxKind.LineCommentTrivia,
   SyntaxKind.BlockCommentTrivia}

IsSignificant(tok) == tok.kind \notin TriviaKinds

\* C16: a scanner made with ignoreTrivia true never returns whitespace, line
\* break, line comment or block comment tokens from scan(), and the tokens it
\* returns (kind, value, offset, length, start line, start character) are those
\* of a scanner with ignoreTrivia false over the same text with the tokens of
\* these four kinds removed.
C16_IgnoreTriviaTokens ==
  doc.ignoreTrivia =>
    /\ \A i \in 1..Len(events) : events[i].kind \notin TriviaKinds
    /\ Len(events) <= Len(SelectSeq(FreshTokens(text, FALSE), IsSignificant))
    /\ events = SubSeq(SelectSeq(FreshTokens(text, FALSE), IsSignificant),
                       1, Len(events))
    /\ scanner.token = SyntaxKind.EOF
         => Len(events) = Len(SelectSeq(FreshTokens(text, FALSE), IsSignificant))

\* A scanner with ignoreTrivia true has reached the end of a text where it
\* passed over comments and over other trivia tokens between tokens.
C16_Witness ==
  /\ doc.ignoreTrivia /\ scanner.token = SyntaxKind.EOF /\ Len(events) >= 2
  /\ \E i \in 1..Len(FreshTokens(text, FALSE)) :
       FreshTokens(text, FALSE)[i].kind = SyntaxKind.BlockCommentTrivia
  /\ \E i, j \in 1..Len(FreshTokens(text, FALSE)) :
       /\ FreshTokens(text, FALSE)[i].kind = SyntaxKind.LineCommentTrivia
       /\ FreshTokens(text, FALSE)[j].kind
            \in {SyntaxKind.Trivia, SyntaxKind.LineBreakTrivia}

\* C17: when one-version.config.jsonc is the README's example (an object with
\* comments and a comma after its last property), loadConfig returns the file's
\* settings: once the configuration is loaded its packageManager is "bun", and
\* it stays "bun" whatever lockfiles there are (no inference, no "could not
\* infer" error).
C17_ReadmeConfigLoaded ==
  (cli.fn = "start" /\ cli.pc # "start"
   /\ cli.rootDirectory.configJsonc = File(ReadmeConfig))
    => /\ Get(cli.initialConfig, JS.packageManager) = Str(JS.bun)
       /\ \A i \in 1..Len(cli.logs) : cli.logs[i].level # "error"

\* The specifiers the claim calls a range or a tag.
IsRangeOrTag(v) ==
  \/ startsWith(v, <<94>>) \/ startsWith(v, <<126>>)
  \/ \E part \in {JS.star, JS.dotx, JS.dotX, JS.hyphenRange, JS.orRange, JS.greater,
                  JS.less} : includes(v, part)
  \/ v \in {JS.latest, JS.canary, JS.next, JS.beta, JS.alpha, JS.rc, JS.dev}
  \/ startsWith(v, JS.workspaceCaret) \/ startsWith(v, JS.workspaceTilde)

\* The specifiers the claim says are never listed.
IsNeverListed(v) ==
  \/ \E prefix \in {JS.filePrefix, JS.urlPrefix, JS.gitPrefix, JS.linkPrefix} :
       startsWith(v, prefix)
  \/ v = JS.workspaceStar

\* The entries { name, version } of a group of dependencies.
EntriesOf(group) ==
  IF group.t # "obj" THEN {}
  ELSE {[name |-> group.keys[i], version |-> group.vals[i].s] : i \in 1..Len(group.keys)}

\* What the claim says is listed for a workspace.
ExpectedUnpinned(workspace, overrides) ==
  {Str(e.name \o JS.at \o e.version) :
     e \in {d \in EntriesOf(Get(workspace, JS.dependencies))
                    \cup EntriesOf(Get(workspace, JS.devDependencies)) :
              /\ IsRangeOrTag(d.version) /\ ~IsNeverListed(d.version)
              /\ ~arrayIncludes(Get(Get(overrides, d.name), d.version),
                                Get(workspace, JS.name).s)
              /\ ~arrayIncludes(Get(Get(overrides, d.name), d.version), JS.star)}}

\* What the result lists for a workspace name.
ListedUnpinned(unpinned, name) ==
  IF HasKey(unpinned, name)
  THEN {Get(unpinned, name).vals[i] : i \in 1..Len(Get(unpinned, name).vals)}
  ELSE {}

\* C18: the result of getUnpinnedDependencies lists under each workspace's name
\* exactly the "name@version" of its dependencies and devDependencies whose
\* specifier is a range or tag, is not one of the passed forms (file:, url:,
\* git:, link:, workspace:*) and is not overridden for the workspace or for "*";
\* peerDependencies are not listed, and a workspace with nothing to list has no
\* key.
C18_UnpinnedListed ==
  (cli.fn = "getUnpinnedDependencies" /\ cli.pc = "done") =>
    \A w \in 1..Len(cli.workspaceDependencies) :
      /\ ListedUnpinned(cli.unpinned, Get(cli.workspaceDependencies[w], JS.name).s)
           = ExpectedUnpinned(cli.workspaceDependencies[w], cli.overrides)
      /\ HasKey(cli.unpinned, Get(cli.workspaceDependencies[w], JS.name).s)
           <=> ExpectedUnpinned(cli.workspaceDependencies[w], cli.overrides) # {}

\* The uses { name, version, consumer } of packages in the dependencies,
\* peerDependencies and devDependencies of a list of package.json contents.
UsesIn(packages) ==
  UNION {{[name |-> e.name, version |-> e.version, consumer |-> Get(packages[w], JS.name).s] :
            e \in EntriesOf(Get(packages[w], JS.dependencies))
                  \cup EntriesOf(Get(packages[w], JS.peerDependencies))
                  \cup EntriesOf(Get(packages[w], JS.devDependencies))} :
         w \in 1..Len(packages)}

\* The versions of a package that some workspace uses without an override.
NonOverriddenVersions(packages, overrides, name) ==
  {u.version : u \in {x \in UsesIn(packages) :
                        /\ x.name = name
                        /\ ~arrayIncludes(Get(Get(overrides, name), x.version), x.consumer)
                        /\ ~arrayIncludes(Get(Get(overrides, name), x.version), JS.star)}}

HasDuplicates(packages, overrides) ==
  \E u \in UsesIn(packages) :
    Cardinality(NonOverriddenVersions(packages, overrides, u.name)) > 1

HasUnpinned(packages, overrides) ==
  \E w \in 1..Len(packages) : ExpectedUnpinned(packages[w], overrides) # {}

\* The package manager is neither configured nor inferable from a lockfile.
NoPackageManager(rootDirectory) ==
  /\ ~Truthy(Get(loadConfig(rootDirectory), JS.packageManager))
  /\ inferPackageManager(rootDirectory) = Undefined

\* The status code the claim gives a finished check.
ExpectedStatusCode(c) ==
  IF \/ NoPackageManager(c.rootDirectory)
     \/ HasDuplicates(c.workspaceDependencies, c.overrides)
     \/ /\ Get(loadConfig(c.rootDirectory), JS.versionStrategy) = Str(JS.pin)
        /\ HasUnpinned(c.workspaceDependencies \o <<c.rootDirectory.package>>, c.overrides)
  THEN 1 ELSE 0

LogsWith(c, line) ==
  {i \in 1..Len(c.logs) : \E j \in 1..Len(c.logs[i].lines) : c.logs[i].lines[j] = line}

\* C19: start with the command check resolves to statusCode 1 when no package
\* manager is configured or inferable (the error is logged and nothing else), when
\* some dependency has more than one non-overridden version, or when
\* versionStrategy is pin and an unpinned dependency is found, and to statusCode 0
\* otherwise; the success message is logged exactly when it resolves to 0, and
\* the failure header at most once.
C19_CheckStatusCode ==
  /\ cli.fn = "start" => Cardinality(LogsWith(cli, FailureHeader[2])) <= 1
  /\ (cli.fn = "start" /\ cli.pc = "done") =>
       /\ cli.outcome = "resolved"
       /\ cli.statusCode = ExpectedStatusCode(cli)
       /\ NoPackageManager(cli.rootDirectory) =>
            /\ Len(cli.logs) = 1 /\ cli.logs[1].level = "error"
            /\ cli.workspaceDependencies = <<>>
       /\ LogsWith(cli, SuccessMessage[2]) # {} <=> cli.statusCode = 0

RECURSIVE HexRun(_, _, _)
\* The position after the hexadecimal digits from position i, at most n of them.
HexRun(t, i, n) ==
  IF n = 0 \/ ~JHex(UnitAt(t, i)) THEN i ELSE HexRun(t, i + 1, n - 1)

RECURSIVE StringConditions(_, _)
\* The error conditions a string meets from position i (after its opening quote)
\* to its end, in the order of the text.
StringConditions(t, i) ==
  IF i > Len(t) \/ t[i] \in {CC.lineFeed, CC.carriageReturn} THEN <<"unterminated">>
  ELSE IF t[i] = CC.doubleQuote THEN <<>>
  ELSE IF t[i] < 32 THEN <<"control character">> \o StringConditions(t, i + 1)
  ELSE IF t[i] # CC.backslash THEN StringConditions(t, i + 1)
  ELSE IF i + 1 > Len(t) THEN <<"unterminated">>
  ELSE IF t[i + 1] \in {CC.doubleQuote, CC.backslash, CC.slash, CC.b, CC.f, CC.n,
                        CC.r, CC.t}
  THEN StringConditions(t, i + 2)
  ELSE IF t[i + 1] # CC.u THEN <<"invalid escape">> \o StringConditions(t, i + 2)
  ELSE IF HexRun(t, i + 2, 4) = i + 6 THEN StringConditions(t, i + 6)
  ELSE <<"invalid unicode">> \o StringConditions(t, HexRun(t, i + 2, 4))

OnErrorEvents == {i \in 1..Len(events) : events[i].cb = "onError"}

\* C20: when parse has ended on a text that is one string token, it has returned
\* and onError was called once for every error condition the string meets
\* (invalid escape, invalid unicode escape, raw control character, unterminated
\* string), also when the string meets several.
C20_EveryScanErrorSurfaced ==
  (cli.fn = "none" /\ Ended /\ text \in StringErrorExamples) =>
    /\ Returned
    /\ Cardinality(OnErrorEvents) = Len(StringConditions(text, 2))
    /\ Len(errors) = Len(StringConditions(text, 2))

EventsOf(cbs) == {i \in 1..Len(events) : events[i].cb \in cbs}

\* Parse has returned without an error, having closed every container it opened
\* and read the text to its end.
ClosedWithoutError ==
  /\ Returned /\ errors = <<>> /\ EventsOf({"onError"}) = {}
  /\ Cardinality(EventsOf({"onObjectEnd", "onArrayEnd"}))
       = Cardinality(EventsOf({"onObjectBegin", "onArrayBegin"}))
  /\ scanner.token = SyntaxKind.EOF

C22_MalformedPropertyRecovered ==
  (Ended /\ text \in MalformedPropertyExamples) =>
    /\ Returned /\ errors # <<>>
    /\ Get(Tree, keyA) = Num(1, 0) /\ Get(Tree, keyB) = Num(1, 0)
    /\ \E i \in EventsOf({"onObjectEnd"}) : events[i].offset = Len(text) - 1

\* Where the digits of a number start in a text that starts with a number, and
\* the positions (from 1) after its integer part, after its fraction and after
\* the sign of its exponent.
NumStart(t) == IF t[1] = CC.minus THEN 2 ELSE 1

IntEnd(t) == JInt(t, NumStart(t))

DotWithoutDigit(t) ==
  UnitAt(t, IntEnd(t)) = CC.dot /\ ~JIsDigit(UnitAt(t, IntEnd(t) + 1))

FracEnd(t) == JFrac(t, IntEnd(t))

SignEnd(t) ==
  IF UnitAt(t, FracEnd(t) + 1) \in {CC.plus, CC.minus} THEN FracEnd(t) + 2
  ELSE FracEnd(t) + 1

ExponentWithoutDigit(t) ==
  /\ ~DotWithoutDigit(t) /\ UnitAt(t, FracEnd(t)) \in {CC.e, CC.E}
  /\ ~JIsDigit(UnitAt(t, SignEnd(t)))

\* The first token the claim gives a text that starts with a number.
ExpectedNumberToken(t) ==
  IF DotWithoutDigit(t)
  THEN [kind |-> SyntaxKind.NumericLiteral, value |-> SubSeq(t, 1, IntEnd(t)),
        length |-> IntEnd(t), error |-> ScanError.UnexpectedEndOfNumber]
  ELSE IF ExponentWithoutDigit(t)
  THEN [kind |-> SyntaxKind.NumericLiteral, value |-> SubSeq(t, 1, FracEnd(t) - 1),
        length |-> SignEnd(t) - 1, error |-> ScanError.UnexpectedEndOfNumber]
  ELSE [kind |-> SyntaxKind.NumericLiteral, value |-> SubSeq(t, 1, JNumber(t, 1) - 1),
        length |-> JNumber(t, 1) - 1, error |-> ScanError.None]

\* C23: the first token of a text that starts with a number is a numeric
\* literal; after a '.' without a digit it carries unexpected-end-of-number and
\* the text up to and including the '.', after an exponent marker (with or
\* without sign) without a digit it carries unexpected-end-of-number, a value
\* without marker and sign and a length that covers them, and otherwise it
\* carries no scan error and the whole number.
C23_NumberScanErrors ==
  (text \in NumberTexts /\ Len(events) >= 1) =>
    /\ events[1].offset = 0
    /\ [kind |-> events[1].kind, value |-> events[1].value,
        length |-> events[1].length, error |-> events[1].error]
         = ExpectedNumberToken(text)

\* -1.e has been scanned (a '.' without a digit), and so has 1e+ (an exponent
\* without a digit); the witness is the first, with "-1." as its value.
C23_Witness ==
  /\ text = <<CC.minus, CC.d1, CC.dot, CC.e>> /\ Len(events) >= 1
  /\ events[1].value = <<CC.minus, CC.d1, CC.dot>>
  /\ events[1].error = ScanError.UnexpectedEndOfNumber

\* The positions (from 1) of t at which a line break ends: a line feed, or a
\* carriage return that no line feed follows.
BreakEnds(t) ==
  {i \in 1..Len(t) :
     \/ t[i] = CC.lineFeed
     \/ t[i] = CC.carriageReturn /\ UnitAt(t, i + 1) # CC.lineFeed}

\* The line breaks that lie before offset, and the offset of the first
\* character of the line that offset is on.
LineBreaksBefore(t, offset) == Cardinality({i \in BreakEnds(t) : i <= offset})

LineStartBefore(t, offset) ==
  IF {i \in BreakEnds(t) : i <= offset} = {} THEN 0
  ELSE CHOOSE i \in BreakEnds(t) :
         i <= offset /\ \A j \in BreakEnds(t) : j <= offset => j <= i

\* C24: every token returned by a scanner (that was never repositioned) has as
\* start line the number of line breaks before its offset, \n, \r and \r\n
\* counting one each, also inside earlier block comments, and as start character
\* its offset minus the offset at which its line starts.
C24_LineAndColumn ==
  \A i \in 1..Len(events) :
    /\ events[i].startLine = LineBreaksBefore(text, events[i].offset)
    /\ events[i].startCharacter
         = events[i].offset - LineStartBefore(text, events[i].offset)

\* Token k is inside a text of n units, and an EOF token is the empty token at n.
TokenWithin(k, n) ==
  /\ k.offset + k.length <= n
  /\ k.kind = SyntaxKind.EOF => (k.offset = n /\ k.length = 0)

\* C25: after any sequence of scan() calls the scanner position is at most the
\* length of the text, every token returned ends at or before the end of the
\* text, the EOF token has the text length as offset and length 0, and a scan()
\* after EOF returns that same EOF token.
C25_ScannerWithinText ==
  /\ scanner.pos <= Len(text)
  /\ \A i \in 1..Len(events) : TokenWithin(events[i], Len(text))
  /\ scanner.token = SyntaxKind.EOF =>
       /\ TokenOf(scanWith(text, scanner, doc.ignoreTrivia)).kind = SyntaxKind.EOF
       /\ TokenWithin(TokenOf(scanWith(text, scanner, doc.ignoreTrivia)), Len(text))

\* The loop of a container has ended on the container's own closing token or at
\* the end of the text.
LoopEndedOnCloserOrEOF ==
  /\ At(M, "parseObject", "end") =>
       scanner.token \in {SyntaxKind.CloseBraceToken, SyntaxKind.EOF}
  /\ At(M, "parseArray", "end") =>
       scanner.token \in {SyntaxKind.CloseBracketToken, SyntaxKind.EOF}

\* The offsets at which containers were closed, in the order of the callbacks.
ClosedAt ==
  [i \in 1..Cardinality(EventsOf({"onObjectEnd", "onArrayEnd"})) |->
     events[CHOOSE j \in EventsOf({"onObjectEnd", "onArrayEnd"}) :
              Cardinality({k \in EventsOf({"onObjectEnd", "onArrayEnd"}) : k <= j}) = i].offset]

\* C26: the loop of an object or array ends only on the container's own closing
\* token or at the end of the text, so that a closer is expected and missed only
\* at the end of the text; and a closer of the other kind inside a nested
\* container is skipped by the recovery of the inner element: parse returns with
\* errors, the inner container closed at its own closer and the enclosing one
\* at its own, the last two tokens of the text.
C26_MismatchedCloserSwallowed ==
  /\ LoopEndedOnCloserOrEOF
  /\ (Ended /\ text \in MismatchedCloserExamples) =>
       /\ Returned /\ errors # <<>>
       /\ ClosedAt = <<Len(text) - 2, Len(text) - 1>>

\* The calls on the stack that have a segment on the path: a parseProperty whose
\* name is pushed (its value is being parsed), a parseArray that has begun an
\* element.
SegmentFrames ==
  {i \in 1..Len(stack) :
     \/ stack[i].fn = "parseProperty" /\ stack[i].pc = "afterValue"
     \/ stack[i].fn = "parseArray" /\ ~stack[i].isFirstElement}

\* The containers open when callback i is made: begun and not ended before it.
OpenBefore(i) ==
  Cardinality({j \in EventsOf({"onObjectBegin", "onArrayBegin"}) : j < i})
    - Cardinality({j \in EventsOf({"onObjectEnd", "onArrayEnd"}) : j < i})

Begins == EventsOf({"onObjectBegin", "onArrayBegin"})

Ends == EventsOf({"onObjectEnd", "onArrayEnd"})

\* The container around the value of callback i: the last one begun before i
\* with as many containers ended as begun between it and i.
ParentOf(i) ==
  CHOOSE b \in Begins :
    /\ b < i
    /\ Cardinality({j \in Begins : b < j /\ j < i})
         = Cardinality({j \in Ends : b < j /\ j < i})
    /\ \A c \in Begins :
         (c < i /\ Cardinality({j \in Begins : c < j /\ j < i})
                     = Cardinality({j \in Ends : c < j /\ j < i})) => c <= b

\* The object or array that parse's visitor made at callback b: it makes one
\* at each onObjectBegin and onArrayBegin, after the array that holds the root.
CellOf(b) == 1 + Cardinality({j \in Begins : j <= b})

\* The values delivered as elements of an array: their path ends with an index.
ElementEvents ==
  {i \in EventsOf({"onObjectBegin", "onArrayBegin", "onLiteralValue"}) :
     events[i].path # <<>> /\ events[i].path[Len(events[i].path)].k = "idx"}

\* What parse's visitor stores for callback i.
StoredFor(i) == IF i \in Begins THEN Ref(CellOf(i)) ELSE events[i].arg

IndexOf(i) == events[i].path[Len(events[i].path)].i

ErrorsInOffsetOrder ==
  \A i, j \in 1..Len(errors) : i < j => errors[i].offset <= errors[j].offset

\* The call has ended in the ReferenceError raised where an error was detected.
ErrorDetected == status = "thrown" /\ exception = "ReferenceError"

\* C29: an error is reported at the token that is current when it is detected,
\* that is, once an error was detected the error list ends with an entry at the
\* offset of the current token, and the entries of the list are in
\* non-decreasing order of offset.
C29_ErrorsAtCurrentTokenInOrder ==
  /\ ErrorsInOffsetOrder
  /\ ErrorDetected =>
       /\ errors # <<>>
       /\ errors[Len(errors)].offset = scanner.tokenOffset

\* C30: getUnpinnedDependencies examines every declared specifier: each entry of
\* a workspace's dependencies and of its devDependencies that is unpinned and
\* not overridden is in the list the result has for the workspace, also when
\* both groups name the same package with different specifiers.
C30_EveryUnpinnedEntryListed ==
  (cli.fn = "getUnpinnedDependencies" /\ cli.pc = "done") =>
    \A w \in 1..Len(cli.workspaceDependencies) :
      ExpectedUnpinned(cli.workspaceDependencies[w], cli.overrides)
        \subseteq ListedUnpinned(cli.unpinned, Get(cli.workspaceDependencies[w], JS.name).s)

====
